---------------------------- MODULE Spec2Model ----------------------------
(***************************************************************************)
(* A model of the in-memory workbook engine of server/src/sheet.ts         *)
(* (class SheetModel): the sheet store, the command dispatcher, the event  *)
(* log with undo and checkpoints, and the recursive formula evaluator.     *)
(*                                                                         *)
(* JavaScript values are modelled as records of one shape so that any two  *)
(* of them can be compared.  Arrays that the code shares by reference      *)
(* (provenance lists: a snapshot's `{...cell}` copies the reference, not   *)
(* the list) live in a heap, `provs`, and cells hold an index into it.     *)
(* Formula text is modelled as its sequence of lexical tokens.             *)
(***************************************************************************)
EXTENDS Integers, Sequences, FiniteSets, TLC

VARIABLES wb,      \* this.wb (sheets, checkpoints, events) and the heap of provenance arrays
          calls,   \* the calls made on the model so far, with their outcome
          past,    \* past[i] is wb right before calls[i]
          evlog,   \* the evaluateCell invocations of the last evaluation call
          run,     \* the planning graph: the node to run next, the thread's state,
                   \* the model calls made and the events sent to onUpdate
          http     \* the requests the server has accepted, each with the task of its
                   \* handler that the event loop runs next

vars == <<wb, calls, past, evlog, run, http>>

----------------------------------------------------------------------------
(* Bounds of the model *)

MaxSteps == 3     \* steps of a plan
MaxSubTasks == 2  \* sub-tasks the allocator returns
MaxPlans == 3     \* plans handed to the task pane at once
MaxRuns == 2      \* runs of the planning graph in one behaviour
MaxRow == 10000   \* rows the address codec is applied to
MaxCol == 700     \* columns the address codec is applied to
MaxOps == 3       \* calls made on the workbook in one behaviour of Spec
EvalCols == 3     \* columns of the sheet the evaluation specification starts from

----------------------------------------------------------------------------
(* Generic helpers *)

RECURSIVE FoldSeq(_, _, _)
FoldSeq(f(_, _), acc, s) ==
  IF s = <<>> THEN acc ELSE FoldSeq(f, f(acc, Head(s)), Tail(s))

Pad(s, n, x) == IF Len(s) >= n THEN s ELSE s \o [i \in 1..(n - Len(s)) |-> x]

Min2(a, b) == IF a <= b THEN a ELSE b
Max2(a, b) == IF a >= b THEN a ELSE b
Abs(a) == IF a < 0 THEN -a ELSE a

\* row-major coordinates (0-based) of the rectangle r1..r2 x c1..c2
RectCoords(r1, r2, c1, c2) ==
  IF r2 < r1 \/ c2 < c1 THEN <<>>
  ELSE LET w == c2 - c1 + 1
           n == (r2 - r1 + 1) * w
       IN [i \in 1..n |-> <<r1 + ((i - 1) \div w), c1 + ((i - 1) % w)>>]

\* row-major indices (0-based) of a 2D grid, row by row as the nested for loops visit them
GridCoords(grid) ==
  FoldSeq(LAMBDA acc, r: acc \o [c \in 1..Len(grid[r]) |-> <<r - 1, c - 1>>],
          <<>>, [r \in 1..Len(grid) |-> r])

----------------------------------------------------------------------------
(* Values, cells, sheets *)

\* JS values a cell can hold: null, a number (n/d in lowest terms, d > 0; the
\* non-finite numbers have their own kind), a string
Null == [k |-> "null", n |-> 0, d |-> 1, s |-> ""]
Num(n) == [k |-> "num", n |-> n, d |-> 1, s |-> ""]
Str(s) == [k |-> "str", n |-> 0, d |-> 1, s |-> s]
REF == Str("#REF!")
ERROR == Str("#ERROR!")

IsNum(v) == v.k \in {"num", "inf", "ninf", "nan"}
IsStr(v) == v.k = "str"

NoFormula == <<>>          \* cell.formula === undefined
NoFormat == "undefined"    \* cell.format === undefined
NoProv == 0                \* cell.provenance === undefined

\* { value: null }
DefaultCell == [value |-> Null, formula |-> NoFormula, format |-> NoFormat, prov |-> NoProv]

\* ensureSize, on the rows of one sheet
EnsureRows(rows, nrows, ncols) ==
  LET padded == Pad(rows, nrows, <<>>)
  IN [i \in 1..Len(padded) |-> Pad(padded[i], ncols, DefaultCell)]

HasCell(rows, r, c) == r >= 0 /\ c >= 0 /\ r < Len(rows) /\ c < Len(rows[r + 1])

\* what a reader sees at (r, c): a cell not materialised yet reads as the default cell
CellAt(rows, r, c) == IF HasCell(rows, r, c) THEN rows[r + 1][c + 1] ELSE DefaultCell

\* rows[r][c] = cell, on a row the sheet has: an index at the end of the row
\* lengthens it (a row is padded to c2 + 1 and written left to right from c1,
\* so no index further out is written)
PutCell(rows, r, c, cell) ==
  [rows EXCEPT ![r + 1] = IF c < Len(@) THEN [@ EXCEPT ![c + 1] = cell] ELSE Append(@, cell)]

\* the provenance list a cell's reference denotes
ProvOf(m, cell) == IF cell.prov = NoProv THEN <<>> ELSE m.provs[cell.prov]

----------------------------------------------------------------------------
(* Outcomes of a call: the state it leaves, whether it returned or threw *)

Ok(m) == [m |-> m, ok |-> TRUE, err |-> "none"]
Throw(m, e) == [m |-> m, ok |-> FALSE, err |-> e]

HasSheet(m, name) == name \in DOMAIN m.sheets

\* (an ensureSize that cuts the grid down to the requested rectangle)
ensureSizeExact(m, name, nrows, ncols) ==
  [m EXCEPT !.sheets[name].rows =
     [i \in 1..nrows |-> [j \in 1..ncols |-> CellAt(@, i - 1, j - 1)]]]

\* ensureSize(sheetName, rows, cols), on a sheet that exists
ensureSize(m, name, nrows, ncols) ==
  [m EXCEPT !.sheets[name].rows = EnsureRows(@, nrows, ncols)]

\* (a snapshot that copies value and formula only)
SnapshotCellsNoFormat(rows, range) ==
  [i \in 1..(range.r2 - range.r1 + 1) |->
     [j \in 1..(range.c2 - range.c1 + 1) |->
        [rows[range.r1 + i][range.c1 + j] EXCEPT !.format = NoFormat]]]

\* snapshot(range): pads the sheet, then copies each cell record of the rectangle;
\* the copy keeps the cell's reference to its provenance array
SnapshotCells(rows, range) ==
  [i \in 1..(range.r2 - range.r1 + 1) |->
     [j \in 1..(range.c2 - range.c1 + 1) |-> rows[range.r1 + i][range.c1 + j]]]

snapshot(m, range) ==
  LET m1 == ensureSize(m, range.sheet, range.r2 + 1, range.c2 + 1)
  IN [m |-> m1, cells |-> SnapshotCells(m1.sheets[range.sheet].rows, range)]

\* (an appendEvent that writes over the last event of a log that has one)
appendEventOver(m, op, args, inverse) ==
  [m EXCEPT !.events = (IF @ = <<>> THEN @ ELSE SubSeq(@, 1, Len(@) - 1))
                       \o <<[op |-> op, args |-> args, inverse |-> inverse]>>]

\* appendEvent: id, ts and summary carry no behaviour and are left out
appendEvent(m, op, args, inverse) ==
  [m EXCEPT !.events = Append(@, [op |-> op, args |-> args, inverse |-> inverse])]

\* checkpoint(id)
checkpoint(m, id) ==
  [m EXCEPT !.checkpoints = Append(@, [id |-> id, atEvent |-> Len(m.events)])]


----------------------------------------------------------------------------
(* Sheet operations.  Each returns the outcome of the call; a call that    *)
(* throws leaves whatever it had already written.                          *)

\* (a createSheet without the guard: the name gets a fresh empty sheet)
createSheetOverwrite(m, name) ==
  LET m1 == [m EXCEPT !.sheets =
                [n \in DOMAIN m.sheets \cup {name} |->
                   IF n = name THEN [name |-> name, rows |-> <<>>] ELSE m.sheets[n]]]
  IN Ok(appendEvent([m1 EXCEPT !.order = IF HasSheet(m, name) THEN @ ELSE Append(@, name)],
                    "createSheet", [name |-> name],
                    [op |-> "deleteSheet", args |-> [name |-> name]]))

\* createSheet(name)
createSheet(m, name) ==
  IF HasSheet(m, name) THEN Throw(m, "DuplicateSheet")
  ELSE LET m1 == [m EXCEPT !.sheets =
                     [n \in DOMAIN m.sheets \cup {name} |->
                        IF n = name THEN [name |-> name, rows |-> <<>>] ELSE m.sheets[n]]]
       IN Ok(appendEvent([m1 EXCEPT !.order = Append(@, name)], "createSheet", [name |-> name],
                         [op |-> "deleteSheet", args |-> [name |-> name]]))

\* (a deleteSheet that returns quietly when the sheet is absent)
deleteSheetQuiet(m, name) ==
  IF ~HasSheet(m, name) THEN Ok(m)
  ELSE LET s == m.sheets[name]
           m1 == [m EXCEPT !.sheets = [n \in DOMAIN m.sheets \ {name} |-> m.sheets[n]],
                           !.order = SelectSeq(@, LAMBDA n: n # name)]
       IN Ok(appendEvent(m1, "deleteSheet", [name |-> name],
                         [op |-> "restoreSheet", args |-> [sheet |-> s]]))

\* deleteSheet(name): the removed sheet object becomes the payload of the inverse
deleteSheet(m, name) ==
  IF ~HasSheet(m, name) THEN Throw(m, "SheetNotFound")
  ELSE LET s == m.sheets[name]
           m1 == [m EXCEPT !.sheets = [n \in DOMAIN m.sheets \ {name} |-> m.sheets[n]],
                           !.order = SelectSeq(@, LAMBDA n: n # name)]
       IN Ok(appendEvent(m1, "deleteSheet", [name |-> name],
                         [op |-> "restoreSheet", args |-> [sheet |-> s]]))

\* (a restore that puts an empty sheet under the name)
restoreSheetEmpty(m, sheet) ==
  LET m1 == [m EXCEPT !.sheets =
                [n \in DOMAIN m.sheets \cup {sheet.name} |->
                   IF n = sheet.name THEN [name |-> sheet.name, rows |-> <<>>] ELSE m.sheets[n]],
                  !.order = IF HasSheet(m, sheet.name) THEN @ ELSE Append(@, sheet.name)]
  IN Ok(appendEvent(m1, "restoreSheet", [sheet |-> sheet],
                    [op |-> "deleteSheet", args |-> [name |-> sheet.name]]))

\* restoreSheet(sheet)
restoreSheet(m, sheet) ==
  LET m1 == [m EXCEPT !.sheets =
                [n \in DOMAIN m.sheets \cup {sheet.name} |->
                   IF n = sheet.name THEN sheet ELSE m.sheets[n]],
                  !.order = IF HasSheet(m, sheet.name) THEN @ ELSE Append(@, sheet.name)]
  IN Ok(appendEvent(m1, "restoreSheet", [sheet |-> sheet],
                    [op |-> "deleteSheet", args |-> [name |-> sheet.name]]))

\* one entry rc of a grid written by setValues, setCells or setFormulas: when
\* the sheet has no row range.r1 + r, rows[rr] is undefined and the access to
\* its column throws a TypeError; what the loop wrote before stays written
WriteEntry(acc, range, rc, write(_, _)) ==
  IF ~acc.ok THEN acc
  ELSE IF range.r1 + rc[1] >= Len(acc.m.sheets[range.sheet].rows) THEN Throw(acc.m, "TypeError")
  ELSE Ok(write(acc.m, rc))

\* the last statement of a cell operation: reached when the loop did not throw
Logged(res, op, args, inverse) ==
  IF res.ok THEN Ok(appendEvent(res.m, op, args, inverse)) ELSE res

\* (a setValues that leaves the cell's formula in place)
SetValueStepKeepFormula(m, range, values, provenance, rc) ==
  LET rr == range.r1 + rc[1]
      cc == range.c1 + rc[2]
      prev == CellAt(m.sheets[range.sheet].rows, rr, cc)
      provs1 == IF provenance.given THEN Append(m.provs, provenance.list) ELSE m.provs
      cell == [prev EXCEPT !.value = values[rc[1] + 1][rc[2] + 1],
                           !.prov = IF provenance.given THEN Len(provs1) ELSE prev.prov]
  IN [m EXCEPT !.sheets[range.sheet].rows = PutCell(@, rr, cc, cell),
               !.provs = provs1]

\* the body of setValues' inner loop for grid entry rc = <<r, c>>
SetValueStep(m, range, values, provenance, rc) ==
  LET rr == range.r1 + rc[1]
      cc == range.c1 + rc[2]
      prev == CellAt(m.sheets[range.sheet].rows, rr, cc)
      provs1 == IF provenance.given THEN Append(m.provs, provenance.list) ELSE m.provs
      cell == [prev EXCEPT !.value = values[rc[1] + 1][rc[2] + 1],
                           !.formula = NoFormula,
                           !.prov = IF provenance.given THEN Len(provs1) ELSE prev.prov]
  IN [m EXCEPT !.sheets[range.sheet].rows = PutCell(@, rr, cc, cell),
               !.provs = provs1]

\* setValues(range, values, provenance?)
setValues(m, range, values, provenance) ==
  IF ~HasSheet(m, range.sheet) THEN Throw(m, "SheetNotFound")
  ELSE LET before == snapshot(m, range)
           m1 == ensureSize(before.m, range.sheet, range.r2 + 1, range.c2 + 1)
           m2 == FoldSeq(LAMBDA acc, rc:
                           WriteEntry(acc, range, rc,
                                      LAMBDA m0, q: SetValueStep(m0, range, values, provenance, q)),
                         Ok(m1), GridCoords(values))
       IN Logged(m2, "setValues",
                 [range |-> range, values |-> values, provenance |-> provenance],
                 [op |-> "setCells", args |-> [range |-> range, cells |-> before.cells]])

\* the body of setCells' loop: rows[r1 + r][c1 + c] = cells[r][c]
SetCellStep(m, range, cells, rc) ==
  [m EXCEPT !.sheets[range.sheet].rows =
     PutCell(@, range.r1 + rc[1], range.c1 + rc[2], cells[rc[1] + 1][rc[2] + 1])]

\* setCells(range, cells): the cells of `cells` themselves are put into the sheet
setCells(m, range, cells) ==
  IF ~HasSheet(m, range.sheet) THEN Throw(m, "SheetNotFound")
  ELSE LET m1 == ensureSize(m, range.sheet, range.r2 + 1, range.c2 + 1)
           m2 == FoldSeq(LAMBDA acc, rc:
                           WriteEntry(acc, range, rc,
                                      LAMBDA m0, q: SetCellStep(m0, range, cells, q)),
                         Ok(m1), GridCoords(cells))
       IN Logged(m2, "setCells", [range |-> range, cells |-> cells],
                 [op |-> "noop", args |-> [none |-> TRUE]])

\* (a setFormulas that leaves the cached value in place)
SetFormulaStepKeepValue(m, range, formulas, rc) ==
  LET rr == range.r1 + rc[1]
      cc == range.c1 + rc[2]
      prev == CellAt(m.sheets[range.sheet].rows, rr, cc)
      cell == [prev EXCEPT !.formula = formulas[rc[1] + 1][rc[2] + 1]]
  IN [m EXCEPT !.sheets[range.sheet].rows = PutCell(@, rr, cc, cell)]

\* the body of setFormulas' inner loop; a null entry is NoFormula
SetFormulaStep(m, range, formulas, rc) ==
  LET rr == range.r1 + rc[1]
      cc == range.c1 + rc[2]
      prev == CellAt(m.sheets[range.sheet].rows, rr, cc)
      cell == [prev EXCEPT !.value = Null, !.formula = formulas[rc[1] + 1][rc[2] + 1]]
  IN [m EXCEPT !.sheets[range.sheet].rows = PutCell(@, rr, cc, cell)]

\* setFormulas(range, formulas)
setFormulas(m, range, formulas) ==
  IF ~HasSheet(m, range.sheet) THEN Throw(m, "SheetNotFound")
  ELSE LET before == snapshot(m, range)
           m1 == ensureSize(before.m, range.sheet, range.r2 + 1, range.c2 + 1)
           m2 == FoldSeq(LAMBDA acc, rc:
                           WriteEntry(acc, range, rc,
                                      LAMBDA m0, q: SetFormulaStep(m0, range, formulas, q)),
                         Ok(m1), GridCoords(formulas))
       IN Logged(m2, "setFormulas", [range |-> range, formulas |-> formulas],
                 [op |-> "setCells", args |-> [range |-> range, cells |-> before.cells]])

\* formatRange(range, format); format null is NoFormat
formatRange(m, range, format) ==
  IF ~HasSheet(m, range.sheet) THEN Throw(m, "SheetNotFound")
  ELSE LET before == snapshot(m, range)
           m1 == ensureSize(before.m, range.sheet, range.r2 + 1, range.c2 + 1)
           m2 == FoldSeq(LAMBDA acc, rc:
                           [acc EXCEPT !.sheets[range.sheet].rows[rc[1] + 1][rc[2] + 1].format = format],
                         m1, RectCoords(range.r1, range.r2, range.c1, range.c2))
       IN Ok(appendEvent(m2, "formatRange", [range |-> range, format |-> format],
                         [op |-> "setCells", args |-> [range |-> range, cells |-> before.cells]]))

\* (a linkProvenance that puts the new entries before the existing ones)
LinkStepPrepend(m, range, prov, rc) ==
  LET cell == m.sheets[range.sheet].rows[rc[1] + 1][rc[2] + 1]
      provs1 == IF cell.prov = NoProv THEN Append(m.provs, <<>>) ELSE m.provs
      ref == IF cell.prov = NoProv THEN Len(provs1) ELSE cell.prov
  IN [m EXCEPT !.sheets[range.sheet].rows[rc[1] + 1][rc[2] + 1].prov = ref,
               !.provs = [provs1 EXCEPT ![ref] = prov \o @]]

\* the body of linkProvenance's loop: the cell's own array is extended in place
LinkStep(m, range, prov, rc) ==
  LET cell == m.sheets[range.sheet].rows[rc[1] + 1][rc[2] + 1]
      provs1 == IF cell.prov = NoProv THEN Append(m.provs, <<>>) ELSE m.provs
      ref == IF cell.prov = NoProv THEN Len(provs1) ELSE cell.prov
  IN [m EXCEPT !.sheets[range.sheet].rows[rc[1] + 1][rc[2] + 1].prov = ref,
               !.provs = [provs1 EXCEPT ![ref] = @ \o prov]]

\* linkProvenance(range, prov)
linkProvenance(m, range, prov) ==
  IF ~HasSheet(m, range.sheet) THEN Throw(m, "SheetNotFound")
  ELSE LET before == snapshot(m, range)
           m2 == FoldSeq(LAMBDA acc, rc: LinkStep(acc, range, prov, rc),
                         before.m, RectCoords(range.r1, range.r2, range.c1, range.c2))
       IN Ok(appendEvent(m2, "linkProvenance", [range |-> range, prov |-> prov],
                         [op |-> "setCells", args |-> [range |-> range, cells |-> before.cells]]))

\* (a dispatch that rejects an unknown op whatever the flag)
dispatchStrict(m, op, args, internal) ==
  CASE op = "createSheet" -> createSheet(m, args.name)
    [] op = "deleteSheet" -> deleteSheet(m, args.name)
    [] op = "restoreSheet" -> restoreSheet(m, args.sheet)
    [] op = "setValues" -> setValues(m, args.range, args.values, args.provenance)
    [] op = "setFormulas" -> setFormulas(m, args.range, args.formulas)
    [] op = "formatRange" -> formatRange(m, args.range, args.format)
    [] op = "setCells" -> setCells(m, args.range, args.cells)
    [] op = "linkProvenance" -> linkProvenance(m, args.range, args.prov)
    [] op = "noop" -> Ok(m)
    [] OTHER -> Throw(m, "UnknownOp")

\* dispatch(op, args, internal)
dispatch(m, op, args, internal) ==
  CASE op = "createSheet" -> createSheet(m, args.name)
    [] op = "deleteSheet" -> deleteSheet(m, args.name)
    [] op = "restoreSheet" -> restoreSheet(m, args.sheet)
    [] op = "setValues" -> setValues(m, args.range, args.values, args.provenance)
    [] op = "setFormulas" -> setFormulas(m, args.range, args.formulas)
    [] op = "formatRange" -> formatRange(m, args.range, args.format)
    [] op = "setCells" -> setCells(m, args.range, args.cells)
    [] op = "linkProvenance" -> linkProvenance(m, args.range, args.prov)
    [] op = "noop" -> Ok(m)
    [] OTHER -> IF internal THEN Ok(m) ELSE Throw(m, "UnknownOp")

\* undo(): pops the last event, then dispatches its inverse; `popped` tells
\* whether an event was returned (FALSE: the call returned null)
undo(m) ==
  IF m.events = <<>> THEN [m |-> m, ok |-> TRUE, err |-> "none", popped |-> FALSE]
  ELSE LET ev == m.events[Len(m.events)]
           m1 == [m EXCEPT !.events = SubSeq(@, 1, Len(@) - 1)]
           r == dispatch(m1, ev.inverse.op, ev.inverse.args, TRUE)
       IN [m |-> r.m, ok |-> r.ok, err |-> r.err, popped |-> TRUE]

----------------------------------------------------------------------------
(* Address codec.  The text of an address is the sequence of its character *)
(* codes: 65..90 for 'A'..'Z', 97..122 for 'a'..'z', 48..57 for '0'..'9'.  *)

\* the text of the letters followed by the text of the digits
Addr(col, row) == col \o row

IsLetter(ch) == ch \in 65..90 \/ ch \in 97..122
IsDigit(ch) == ch \in 48..57

\* ref.match(/^([A-Za-z]+)([0-9]+)$/): the length of the first group
MatchA1(ref) ==
  CHOOSE k \in 1..(Len(ref) - 1) :
    /\ \A i \in 1..k : IsLetter(ref[i])
    /\ \A i \in (k + 1)..Len(ref) : IsDigit(ref[i])

ToUpperCase(s) == [i \in 1..Len(s) |-> IF s[i] >= 97 THEN s[i] - 32 ELSE s[i]]

\* String(n) for an integer n >= 0: its decimal digits
RECURSIVE Digits(_)
Digits(n) == IF n < 10 THEN <<48 + n>> ELSE Digits(n \div 10) \o <<48 + (n % 10)>>

\* parseInt(text, 10) of a run of decimal digits
ParseInt(ds) == FoldSeq(LAMBDA n, d: n * 10 + (d - 48), 0, ds)

ColOf(colStr) == FoldSeq(LAMBDA col, ch: col * 26 + (ch - 64), 0, colStr)

\* a1ToRc, for a text the pattern matches:
\* col = col * 26 + (charCode - 64) over the letters; row = parseInt - 1
a1ToRc(ref) ==
  [r |-> ParseInt(SubSeq(ref, MatchA1(ref) + 1, Len(ref))) - 1,
   c |-> ColOf(ToUpperCase(SubSeq(ref, 1, MatchA1(ref)))) - 1]

\* (an encoder whose loop divides n, not n - 1)
RECURSIVE ColLettersOff(_, _)
ColLettersOff(n, s) ==
  IF n > 0 THEN ColLettersOff(n \div 26, <<65 + ((n - 1) % 26)>> \o s) ELSE s

\* rcToA1: the while loop of the encoder, most significant letter first
RECURSIVE ColLetters(_, _)
ColLetters(n, s) ==
  IF n > 0 THEN ColLetters((n - 1) \div 26, <<65 + ((n - 1) % 26)>> \o s) ELSE s

\* return s + (r + 1)
rcToA1(r, c) == ColLetters(c + 1, <<>>) \o Digits(r + 1)

----------------------------------------------------------------------------
(* Formula text as tokens *)

TEq == [t |-> "eq"]                         \* the leading '='
TRef(a) == [t |-> "ref", a |-> a]           \* a bare cell reference, e.g. A1
TLit(v) == [t |-> "lit", v |-> v]           \* an unsigned numeric literal
TOp(o) == [t |-> "op", o |-> o]             \* one of + - * / ( )
TSum(args) == [t |-> "sum", args |-> args]  \* SUM(arg, ..., arg)
TText(s) == [t |-> "text", s |-> s]         \* a string substituted verbatim

\* the arguments of SUM
ARange(a, b) == [k |-> "range", a |-> a, b |-> b]
ARef(a) == [k |-> "ref", a |-> a]
ALit(v) == [k |-> "lit", v |-> v]

\* cell.formula is set and, trimmed, starts with '='
IsLive(formula) == formula # NoFormula /\ formula[1] = TEq

----------------------------------------------------------------------------
(* JS numbers: + - * / on n/d and the non-finite values (the sign of zero  *)
(* is not modelled)                                                        *)

RECURSIVE Gcd(_, _)
Gcd(a, b) == IF b = 0 THEN a ELSE Gcd(b, a % b)

Inf == [k |-> "inf", n |-> 0, d |-> 1, s |-> ""]
NInf == [k |-> "ninf", n |-> 0, d |-> 1, s |-> ""]
NaN == [k |-> "nan", n |-> 0, d |-> 1, s |-> ""]

Rat(n, d) ==
  LET g == Gcd(Abs(n), Abs(d))
      sg == IF d < 0 THEN -1 ELSE 1
  IN [k |-> "num", n |-> (sg * n) \div g, d |-> Abs(d) \div g, s |-> ""]

Sign(v) == CASE v.k = "inf" -> 1
             [] v.k = "ninf" -> -1
             [] v.k = "num" -> (IF v.n > 0 THEN 1 ELSE IF v.n < 0 THEN -1 ELSE 0)
             [] OTHER -> 0

Signed(sg) == IF sg > 0 THEN Inf ELSE NInf

JsNeg(a) == CASE a.k = "num" -> Rat(-a.n, a.d)
              [] a.k = "inf" -> NInf
              [] a.k = "ninf" -> Inf
              [] OTHER -> NaN

JsAdd(a, b) ==
  CASE a.k = "nan" \/ b.k = "nan" -> NaN
    [] a.k = "num" /\ b.k = "num" -> Rat(a.n * b.d + b.n * a.d, a.d * b.d)
    [] a.k = "num" -> b
    [] b.k = "num" -> a
    [] OTHER -> IF a.k = b.k THEN a ELSE NaN

JsSub(a, b) == JsAdd(a, JsNeg(b))

JsMul(a, b) ==
  CASE a.k = "nan" \/ b.k = "nan" -> NaN
    [] a.k = "num" /\ b.k = "num" -> Rat(a.n * b.n, a.d * b.d)
    [] OTHER -> IF Sign(a) * Sign(b) = 0 THEN NaN ELSE Signed(Sign(a) * Sign(b))

JsDiv(a, b) ==
  CASE a.k = "nan" \/ b.k = "nan" -> NaN
    [] a.k = "num" /\ b.k = "num" ->
         IF b.n # 0 THEN Rat(a.n * b.d, a.d * b.n)
         ELSE IF a.n = 0 THEN NaN ELSE Signed(Sign(a))
    [] a.k = "num" -> Num(0)
    [] b.k = "num" -> Signed(IF b.n < 0 THEN -Sign(a) ELSE Sign(a))
    [] OTHER -> NaN

\* String(number), as tokens of the expression text
NumText(v) ==
  CASE v.k = "num" -> (IF v.n < 0 THEN <<TOp("-"), TLit(JsNeg(v))>> ELSE <<TLit(v)>>)
    [] v.k = "inf" -> <<TText("Infinity")>>
    [] v.k = "ninf" -> <<TOp("-"), TText("Infinity")>>
    [] OTHER -> <<TText("NaN")>>

\* Number(v) for the values a cell holds; the strings of the model are not numerals
ToNumber(v) == CASE v.k = "null" -> Num(0)
                 [] v.k = "str" -> NaN
                 [] OTHER -> v

----------------------------------------------------------------------------
(* Function(`"use strict"; return (${expr})`)() on the substituted text:   *)
(* a recursive-descent evaluation of the token sequence.  A result is      *)
(* [ok, v, i]: whether no error was raised so far, the value, the next     *)
(* token's index.                                                          *)

\* adjacent - - or + + lex as the update operators -- and ++, which no operand
\* of the text can take
HasUpdateOp(e) ==
  \E i \in 1..(Len(e) - 1) :
     /\ e[i].t = "op" /\ e[i + 1].t = "op"
     /\ e[i].o = e[i + 1].o /\ e[i].o \in {"+", "-"}

IsOp(e, i, ops) == i <= Len(e) /\ e[i].t = "op" /\ e[i].o \in ops

PFail(i) == [ok |-> FALSE, v |-> NaN, i |-> i]

RECURSIVE ParseExpr(_, _)
RECURSIVE ParseTerm(_, _)
RECURSIVE ParseUnary(_, _)
RECURSIVE ParseExprRest(_, _)
RECURSIVE ParseTermRest(_, _)

\* a literal, the identifiers Infinity and NaN, or a parenthesised expression;
\* any other identifier is a ReferenceError, a '/' here opens a regular expression
ParsePrimary(e, i) ==
  IF i > Len(e) THEN PFail(i)
  ELSE CASE e[i].t = "lit" -> [ok |-> TRUE, v |-> e[i].v, i |-> i + 1]
         [] e[i].t = "text" /\ e[i].s = "Infinity" -> [ok |-> TRUE, v |-> Inf, i |-> i + 1]
         [] e[i].t = "text" /\ e[i].s = "NaN" -> [ok |-> TRUE, v |-> NaN, i |-> i + 1]
         [] e[i].t = "op" /\ e[i].o = "(" ->
              LET inner == ParseExpr(e, i + 1)
              IN IF inner.ok /\ IsOp(e, inner.i, {")"})
                 THEN [inner EXCEPT !.i = @ + 1] ELSE PFail(i)
         [] OTHER -> PFail(i)

ParseUnary(e, i) ==
  IF IsOp(e, i, {"-"}) THEN LET u == ParseUnary(e, i + 1) IN [u EXCEPT !.v = JsNeg(@)]
  ELSE IF IsOp(e, i, {"+"}) THEN ParseUnary(e, i + 1)
  ELSE ParsePrimary(e, i)

ParseTermRest(e, left) ==
  IF ~left.ok \/ ~IsOp(e, left.i, {"*", "/"}) THEN left
  ELSE LET right == ParseUnary(e, left.i + 1)
           v == IF e[left.i].o = "*" THEN JsMul(left.v, right.v) ELSE JsDiv(left.v, right.v)
       IN ParseTermRest(e, [right EXCEPT !.v = v])

ParseTerm(e, i) == ParseTermRest(e, ParseUnary(e, i))

ParseExprRest(e, left) ==
  IF ~left.ok \/ ~IsOp(e, left.i, {"+", "-"}) THEN left
  ELSE LET right == ParseTerm(e, left.i + 1)
           v == IF e[left.i].o = "+" THEN JsAdd(left.v, right.v) ELSE JsSub(left.v, right.v)
       IN ParseExprRest(e, [right EXCEPT !.v = v])

ParseExpr(e, i) == ParseExprRest(e, ParseTerm(e, i))

\* (an evaluation whose failure yields 0)
JsEvalZero(e) ==
  IF HasUpdateOp(e) THEN Num(0)
  ELSE LET p == ParseExpr(e, 1)
       IN IF p.ok /\ p.i = Len(e) + 1 THEN p.v ELSE Num(0)

\* the try/catch around the evaluation: the number, or '#ERROR!'
JsEval(e) ==
  IF HasUpdateOp(e) THEN ERROR
  ELSE LET p == ParseExpr(e, 1)
       IN IF p.ok /\ p.i = Len(e) + 1 THEN p.v ELSE ERROR

----------------------------------------------------------------------------
(* The evaluator, on the rows of one sheet.  An evaluation state is        *)
(*   rows  the sheet's rows (getCell pads them, evaluateCell writes values) *)
(*   seen  the visited set of the current top-level call                   *)
(*   ok    FALSE once an exception is propagating                          *)
(*   n     the number of evaluateCell invocations entered so far           *)
(*   log   one record per invocation that returned: its number `id`, the   *)
(*         invocation that made it (`parent`, 0 for a top-level call) and  *)
(*         how (`via`), the cell, whether its formula is live, whether it  *)
(*         was found in `seen`, the value stored in the cell on entry      *)
(*         (`pre`) and on return (`post`), and the value returned (`ret`)  *)

\* getCell(sheet, r, c): pads, then reads rows[r][c]; a negative row reads
\* rows[-1], which is undefined, and the access to its column throws
getCell(st, r, c) ==
  LET st1 == [st EXCEPT !.rows = EnsureRows(@, r + 1, c + 1)]
  IN IF r < 0 \/ c < 0 THEN [st1 EXCEPT !.ok = FALSE] ELSE st1

LogEntry(id, parent, via, r, c, live, hit, pre, ret, post) ==
  [id |-> id, parent |-> parent, via |-> via, r |-> r, c |-> c,
   live |-> live, hit |-> hit, pre |-> pre, ret |-> ret, post |-> post]

HasText(e, s) == \E i \in 1..Len(e) : e[i].t = "text" /\ e[i].s = s

\* String(x) as text: a string verbatim, a number by its digits
ValueText(v) == IF IsStr(v) THEN <<TText(v.s)>> ELSE NumText(v)

\* the value evaluateCell stores for the substituted text
StoredValue(expr) ==
  IF HasText(expr, "#REF!") THEN REF
  ELSE IF HasText(expr, "#ERROR!") THEN ERROR
  ELSE JsEval(expr)

RECURSIVE evaluateCell(_, _, _, _, _)
RECURSIVE SumRangeFrom(_, _, _, _, _)
RECURSIVE SumArgsFrom(_, _, _, _, _)
RECURSIVE SubstituteSumsFrom(_, _, _, _, _)
RECURSIVE SubstituteRefsFrom(_, _, _, _, _)

\* what evalRef makes of evaluateCell's result: a string comes back as it is,
\* a number too, null as 0
RefResult(res) == [res EXCEPT !.v = IF @.k = "null" THEN Num(0) ELSE @]

\* evalRef(sheet, a1, seen)
evalRef(st, a, parent, via) ==
  RefResult(evaluateCell(st, a1ToRc(a).r, a1ToRc(a).c, parent, via))

\* (a sumRange that adds n also when it is NaN)
SumRangeAddNaN(res, coords, i, total, parent) ==
  SumRangeFrom(res.st, coords, i + 1,
               IF ~res.st.ok THEN total ELSE JsAdd(total, ToNumber(res.v)),
               parent)

\* sumRange's `if (!isNaN(n)) total += n` for the cell result `res`, then the next cell
SumRangeAdd(res, coords, i, total, parent) ==
  SumRangeFrom(res.st, coords, i + 1,
               IF ~res.st.ok \/ ToNumber(res.v).k = "nan" THEN total
               ELSE JsAdd(total, ToNumber(res.v)),
               parent)

\* the loops of sumRange from the i-th cell of the rectangle on
SumRangeFrom(st, coords, i, total, parent) ==
  IF ~st.ok \/ i > Len(coords) THEN [st |-> st, v |-> total]
  ELSE SumRangeAdd(evaluateCell(st, coords[i][1], coords[i][2], parent, "range"),
                   coords, i, total, parent)

SumRangeRect(st, p, q, parent) ==
  SumRangeFrom(st, RectCoords(Min2(p.r, q.r), Max2(p.r, q.r), Min2(p.c, q.c), Max2(p.c, q.c)),
               1, Num(0), parent)

\* sumRange(sheet, a1range, seen)
sumRange(st, a, b, parent) == SumRangeRect(st, a1ToRc(a), a1ToRc(b), parent)

\* sumTerm(sheet, term, seen)
sumTerm(st, term, parent) ==
  CASE term.k = "range" -> sumRange(st, term.a, term.b, parent)
    [] term.k = "ref" -> evalRef(st, term.a, parent, "sumref")
    [] OTHER -> [st |-> st, v |-> IF term.v.k = "num" THEN term.v ELSE Num(0)]

\* (a loop body that skips a string and goes on with the next term)
SumArgsAddAll(res, args, i, total, parent) ==
  SumArgsFrom(res.st, args, i + 1,
              IF res.st.ok /\ ~IsStr(res.v) THEN JsAdd(total, res.v) ELSE total, parent)

\* sumArgs' loop body for the term result `res`: a string is returned at once
SumArgsAdd(res, args, i, total, parent) ==
  IF res.st.ok /\ IsStr(res.v) THEN res
  ELSE SumArgsFrom(res.st, args, i + 1,
                   IF res.st.ok THEN JsAdd(total, res.v) ELSE total, parent)

\* the loop of sumArgs from the i-th term on
SumArgsFrom(st, args, i, total, parent) ==
  IF ~st.ok \/ i > Len(args) THEN [st |-> st, v |-> total]
  ELSE SumArgsAdd(sumTerm(st, args[i], parent), args, i, total, parent)

\* sumArgs(sheet, args, seen)
sumArgs(st, args, parent) == SumArgsFrom(st, args, 1, Num(0), parent)

\* a replace callback returned `res`: its text joins the output, the scan goes on
SumReplaced(res, expr, i, out, parent) ==
  SubstituteSumsFrom(res.st, expr, i + 1, out \o ValueText(res.v), parent)

\* first replace: every SUM(...) call, left to right; `out` is the text so far
SubstituteSumsFrom(st, expr, i, out, parent) ==
  IF ~st.ok \/ i > Len(expr) THEN [st |-> st, expr |-> out]
  ELSE IF expr[i].t = "sum"
       THEN SumReplaced(sumArgs(st, expr[i].args, parent), expr, i, out, parent)
       ELSE SubstituteSumsFrom(st, expr, i + 1, Append(out, expr[i]), parent)

RefReplaced(res, expr, i, out, parent) ==
  SubstituteRefsFrom(res.st, expr, i + 1, out \o ValueText(res.v), parent)

\* second replace: every bare reference left, left to right
SubstituteRefsFrom(st, expr, i, out, parent) ==
  IF ~st.ok \/ i > Len(expr) THEN [st |-> st, expr |-> out]
  ELSE IF expr[i].t = "ref"
       THEN RefReplaced(evalRef(st, expr[i].a, parent, "ref"), expr, i, out, parent)
       ELSE SubstituteRefsFrom(st, expr, i + 1, Append(out, expr[i]), parent)

\* the two replace passes over the formula text after its '='
SubstituteRefs(p1, parent) == SubstituteRefsFrom(p1.st, p1.expr, 1, <<>>, parent)
Substitute(st, expr, parent) ==
  SubstituteRefs(SubstituteSumsFrom(st, expr, 1, <<>>, parent), parent)

\* evaluateCell returns `ret` from invocation `id`, having stored it when `store`
Return(st, id, parent, via, r, c, live, hit, pre, ret, store) ==
  [st |-> [st EXCEPT !.rows[r + 1][c + 1].value = IF store THEN ret ELSE @,
                     !.log = Append(@, LogEntry(id, parent, via, r, c, live, hit, pre, ret,
                                                IF store THEN ret
                                                ELSE st.rows[r + 1][c + 1].value))],
   v |-> ret]

\* the cell was in `seen`: '#REF!' is stored and returned
SeenHit(g, id, parent, via, r, c) ==
  IF ~g.ok THEN [st |-> g, v |-> Null]
  ELSE Return(g, id, parent, via, r, c, IsLive(g.rows[r + 1][c + 1].formula), TRUE,
              g.rows[r + 1][c + 1].value, REF, TRUE)

\* the end of evaluateCell for a live formula: p is the substituted text
Finish(p, id, parent, via, r, c, pre) ==
  IF ~p.st.ok THEN [st |-> p.st, v |-> Null]
  ELSE Return(p.st, id, parent, via, r, c, TRUE, FALSE, pre, StoredValue(p.expr), TRUE)

\* the cell was not in `seen`: g is the state after getCell
Visit(g, id, parent, via, r, c) ==
  IF ~g.ok THEN [st |-> g, v |-> Null]
  ELSE IF ~IsLive(g.rows[r + 1][c + 1].formula)
       THEN Return(g, id, parent, via, r, c, FALSE, FALSE,
                   g.rows[r + 1][c + 1].value, g.rows[r + 1][c + 1].value, FALSE)
       ELSE Finish(Substitute(g, Tail(g.rows[r + 1][c + 1].formula), id),
                   id, parent, via, r, c, g.rows[r + 1][c + 1].value)

\* evaluateCell(sheet, r, c, seen)
evaluateCell(st, r, c, parent, via) ==
  IF ~st.ok THEN [st |-> st, v |-> Null]
  ELSE IF <<r, c>> \in st.seen
       THEN SeenHit(getCell([st EXCEPT !.n = @ + 1], r, c), st.n + 1, parent, via, r, c)
       ELSE Visit(getCell([st EXCEPT !.n = @ + 1, !.seen = @ \cup {<<r, c>>}], r, c),
                  st.n + 1, parent, via, r, c)

\* (a top-level call that is handed the set of the call before it)
EvalTopShared(st, r, c) ==
  evaluateCell(st, r, c, 0, "top").st

\* one top-level call evaluateCell(sheet, r, c, new Set())
EvalTop(st, r, c) ==
  evaluateCell([st EXCEPT !.seen = {}], r, c, 0, "top").st

\* the loops of evaluateAll over one sheet; both bounds are read at every
\* iteration, so cells the evaluation itself adds are visited too
RECURSIVE EvalSheetFrom(_, _, _)
EvalSheetFrom(st, r, c) ==
  IF ~st.ok \/ r >= Len(st.rows) THEN st
  ELSE IF c >= Len(st.rows[r + 1]) THEN EvalSheetFrom(st, r + 1, 0)
  ELSE EvalSheetFrom(EvalTop(st, r, c), r, c + 1)

EvalState(rows) == [rows |-> rows, seen |-> {}, ok |-> TRUE, n |-> 0, log |-> <<>>]

RECURSIVE EvalSheetsFrom(_, _)

\* the sheet `name` was evaluated to `st`; the next sheet follows
SheetDone(acc, name, st, i) ==
  EvalSheetsFrom([m |-> [acc.m EXCEPT !.sheets[name].rows = st.rows],
                  ok |-> st.ok, n |-> st.n, log |-> st.log], i + 1)

\* evaluateAll() from the i-th sheet of the Map's order on; an exception ends the call
EvalSheetsFrom(acc, i) ==
  IF ~acc.ok \/ i > Len(acc.m.order) THEN acc
  ELSE SheetDone(acc, acc.m.order[i],
                 EvalSheetFrom([EvalState(acc.m.sheets[acc.m.order[i]].rows)
                                  EXCEPT !.n = acc.n, !.log = acc.log], 0, 0),
                 i)

EvalOutcome(out) ==
  [m |-> out.m, ok |-> out.ok, err |-> IF out.ok THEN "none" ELSE "TypeError", log |-> out.log]

\* evaluateAll()
evaluateAll(m) == EvalOutcome(EvalSheetsFrom([m |-> m, ok |-> TRUE, n |-> 0, log |-> <<>>], 1))

----------------------------------------------------------------------------
(* getProvenance(sheet, a1): getCell pads the sheet up to the cell before   *)
(* reading it; the call returns the cell's provenance list, or [] when the *)
(* cell has none (ProvOf of the cell)                                      *)

getProvenance(m, sheet, a1) ==
  LET rc == a1ToRc(a1)
  IN IF ~HasSheet(m, sheet) THEN Throw(m, "SheetNotFound")
     ELSE IF rc.r < 0 THEN Throw(ensureSize(m, sheet, rc.r + 1, rc.c + 1), "TypeError")
     ELSE Ok(ensureSize(m, sheet, rc.r + 1, rc.c + 1))

----------------------------------------------------------------------------
(* loadFromJSON(workbookData).  The data is a sequence of sheets           *)
(* [name, rows]; a cell of the data is [value, formula, format,            *)
(* provenance], an absent property being Null, NoFormula, NoFormat or      *)
(* NoProvenance.                                                           *)

\* one cell of the data becomes a cell of the sheet; a provenance array comes along
LoadCell(acc, name, i, j, cell) ==
  LET provs1 == IF cell.provenance.given THEN Append(acc.provs, cell.provenance.list)
                ELSE acc.provs
      loaded == [value |-> cell.value, formula |-> cell.formula, format |-> cell.format,
                 prov |-> IF cell.provenance.given THEN Len(provs1) ELSE NoProv]
  IN [acc EXCEPT !.sheets[name].rows[i][j] = loaded, !.provs = provs1]

\* this.wb.sheets.set(s.name, newSheet): a name already in the Map keeps its place
LoadSheet(acc, s) ==
  LET shape == [i \in 1..Len(s.rows) |-> [j \in 1..Len(s.rows[i]) |-> DefaultCell]]
      m1 == [acc EXCEPT !.sheets =
                [n \in DOMAIN acc.sheets \cup {s.name} |->
                   IF n = s.name THEN [name |-> s.name, rows |-> shape] ELSE acc.sheets[n]],
                        !.order = IF HasSheet(acc, s.name) THEN @ ELSE Append(@, s.name)]
  IN FoldSeq(LAMBDA a, rc: LoadCell(a, s.name, rc[1] + 1, rc[2] + 1,
                                    s.rows[rc[1] + 1][rc[2] + 1]),
             m1, GridCoords(s.rows))

\* the sheets are in place: default sheet if none, history reset, checkpoint
LoadReset(m) ==
  LET m1 == IF m.order = <<>> THEN createSheet(m, "Sheet1").m ELSE m
  IN checkpoint([m1 EXCEPT !.events = <<>>, !.checkpoints = <<>>], "import")

\* (a load that keeps the event log)
loadFromJSONKeepLog(m, data) ==
  LET m1 == FoldSeq(LoadSheet, [m EXCEPT !.sheets = <<>>, !.order = <<>>], data)
      m2 == IF m1.order = <<>> THEN createSheet(m1, "Sheet1").m ELSE m1
  IN evaluateAll(checkpoint([m2 EXCEPT !.checkpoints = <<>>], "import"))

\* loadFromJSON(workbookData); its last statement is evaluateAll()
loadFromJSON(m, data) ==
  evaluateAll(LoadReset(FoldSeq(LoadSheet, [m EXCEPT !.sheets = <<>>, !.order = <<>>], data)))

----------------------------------------------------------------------------
(* executePlan(plan, wb): the batch executor of the agent                  *)

\* range.r3 / range.c3 become r2 / c2 when those are missing
Rename(rg, from, to) ==
  IF from \in DOMAIN rg /\ to \notin DOMAIN rg
  THEN [k \in (DOMAIN rg \ {from}) \cup {to} |-> IF k = to THEN rg[from] ELSE rg[k]]
  ELSE rg

Sanitize(args) ==
  IF "range" \in DOMAIN args
  THEN [args EXCEPT !.range = Rename(Rename(@, "r3", "r2"), "c3", "c2")]
  ELSE args

ExecutedStep(step) == [step |-> step, failed |-> FALSE, explain |-> ""]
FailedStep(step, err) == [step |-> step, failed |-> TRUE, explain |-> err]

RECURSIVE ExecFrom(_, _, _, _)

\* (a loop body that records the failure and goes on with the next step)
ExecStepOn(r, steps, i, executed) ==
  ExecFrom(r.m, steps, i + 1,
           Append(executed, IF r.ok THEN ExecutedStep(steps[i])
                            ELSE FailedStep(steps[i], r.err)))

\* the i-th step was dispatched with outcome r: pushed and on, or pushed as failed and out
ExecStep(r, steps, i, executed) ==
  IF r.ok THEN ExecFrom(r.m, steps, i + 1, Append(executed, ExecutedStep(steps[i])))
  ELSE [m |-> r.m, executed |-> Append(executed, FailedStep(steps[i], r.err))]

\* the for loop of executePlan from the i-th step on
ExecFrom(m, steps, i, executed) ==
  IF i > Len(steps) THEN [m |-> m, executed |-> executed]
  ELSE ExecStep(dispatch(m, steps[i].op, Sanitize(steps[i].args), FALSE), steps, i, executed)

\* after the loop: evaluateAll(), then checkpoint('agent'), then return executed
PlanOutcome(loop, ev) ==
  [m |-> IF ev.ok THEN checkpoint(ev.m, "agent") ELSE ev.m,
   ok |-> ev.ok, err |-> ev.err, log |-> ev.log,
   executed |-> loop.executed, looped |-> loop.m]

PlanDone(loop) == PlanOutcome(loop, evaluateAll(loop.m))

\* executePlan(plan, wb)
executePlan(m, steps) == PlanDone(ExecFrom(m, steps, 1, <<>>))

----------------------------------------------------------------------------
(* The planning graph of agent.ts.  A node reads the thread's state, calls *)
(* the model once and returns a partial state; the graph writes the        *)
(* partial over the state and follows the node's edge.  A model response   *)
(* is modelled parsed; a field the response may lack is a record           *)
(* [present, value]; null and the empty text are both "".                  *)

Present(v) == [present |-> TRUE, value |-> v]
Absent == [present |-> FALSE, value |-> <<>>]

\* x || [] for an array-valued field
OrEmpty(x) == IF x.present THEN x.value ELSE <<>>

\* x?.length || 0
LengthOr0(x) == IF x.present THEN Len(x.value) ELSE 0

Status(kind, text, n) == [kind |-> kind, text |-> text, n |-> n]

\* streamAgenticWorkflow: initialState
initialState ==
  [routingDecision |-> "null", subTasks |-> <<>>, currentSubTaskIndex |-> 0,
   finalPlans |-> <<>>, planHistory |-> <<>>, planSummary |-> "", statusUpdates |-> <<>>]

\* a channel keeps the last value written to it
Update(state, partial) ==
  [k \in DOMAIN state |-> IF k \in DOMAIN partial THEN partial[k] ELSE state[k]]

\* the text parts of a node's prompt that depend on the state
Prompt(node, task, planHistory) ==
  [node |-> node, task |-> task, context |-> Len(planHistory) > 0, history |-> planHistory]

routerNode(state, result) ==
  [routingDecision |-> result.decision,
   statusUpdates |-> <<Status("assessed", result.decision, 0)>>]

singlePlannerNode(state, result) ==
  [finalPlans |-> <<OrEmpty(result.plan)>>,
   planSummary |-> result.summary,
   statusUpdates |-> <<Status("planned", "", LengthOr0(result.plan))>>]

taskAllocatorNode(state, result) ==
  [subTasks |-> OrEmpty(result.subTasks),
   currentSubTaskIndex |-> 0,
   finalPlans |-> <<>>,
   statusUpdates |-> <<Status("allocated", "", LengthOr0(result.subTasks))>>]

\* state.subTasks[state.currentSubTaskIndex], "undefined" past the end of the list
currentTask(state) ==
  IF state.currentSubTaskIndex < Len(state.subTasks)
  THEN state.subTasks[state.currentSubTaskIndex + 1]
  ELSE "undefined"

\* (a sub-planner that returns no planHistory)
subPlannerNodeForgetful(state, result) ==
  [finalPlans |-> Append(state.finalPlans, OrEmpty(result.plan)),
   planSummary |-> result.summary,
   currentSubTaskIndex |-> state.currentSubTaskIndex + 1,
   statusUpdates |-> <<Status("sub-plan", currentTask(state), 0)>>]

subPlannerNode(state, result) ==
  [finalPlans |-> Append(state.finalPlans, OrEmpty(result.plan)),
   planHistory |-> Append(state.planHistory, OrEmpty(result.plan)),
   planSummary |-> result.summary,
   currentSubTaskIndex |-> state.currentSubTaskIndex + 1,
   statusUpdates |-> <<Status("sub-plan", currentTask(state), 0)>>]

afterRouter(state) ==
  IF state.routingDecision = "simple" THEN "singlePlanner" ELSE "taskAllocator"

shouldContinueComplex(state) ==
  IF state.currentSubTaskIndex < Len(state.subTasks) THEN "subPlanner" ELSE "END"

\* the edges of the workflow
Edge(node, state) ==
  CASE node = "START" -> "router"
    [] node = "router" -> afterRouter(state)
    [] node = "singlePlanner" -> "END"
    [] node = "taskAllocator" -> "subPlanner"
    [] node = "subPlanner" -> shouldContinueComplex(state)

\* onUpdate events
StatusEvent(update) == [type |-> "status", status |-> update, summary |-> "", plans |-> <<>>]
SummaryEvent(s) == [type |-> "summary", status |-> Status("", "", 0), summary |-> s, plans |-> <<>>]
PlanEvent(type, plans) == [type |-> type, status |-> Status("", "", 0), summary |-> "", plans |-> plans]

\* the body of the stream loop for one chunk {nodeName: nodeState}
ChunkEvents(nodeName, nodeState) ==
  [i \in 1..Len(nodeState.statusUpdates) |-> StatusEvent(nodeState.statusUpdates[i])]
  \o (IF nodeName \in {"singlePlanner", "subPlanner"}
      THEN (IF nodeState.planSummary # "" THEN <<SummaryEvent(nodeState.planSummary)>> ELSE <<>>)
           \o (IF Len(nodeState.finalPlans) > 0
               THEN <<PlanEvent("subPlan", <<nodeState.finalPlans[Len(nodeState.finalPlans)]>>)>>
               ELSE <<>>)
      ELSE <<>>)

\* no run yet
NoRun == [id |-> 0, next |-> "idle", values |-> initialState, llm |-> <<>>, updates |-> <<>>]

\* app.stream(initialState, config) on a thread of its own; the events go to
\* the onUpdate callback of this call
Stream(g) == [g EXCEPT !.id = g.id + 1, !.next = Edge("START", initialState),
                       !.values = initialState, !.updates = <<>>]

\* a call of generateContent
ModelCall(g, prompt, ok, result) == [run |-> g.id, prompt |-> prompt, ok |-> ok, result |-> result]

\* one step of the graph: the node calls the model with its prompt, its partial
\* is written to the state, the chunk is handed to the stream loop
Step(g, node, prompt, result, partial) ==
  [g EXCEPT !.values = Update(g.values, partial),
            !.next = Edge(node, Update(g.values, partial)),
            !.llm = Append(g.llm, ModelCall(g, prompt, TRUE, result)),
            !.updates = g.updates \o ChunkEvents(node, partial)]

\* generateContent rejects, or JSON.parse of its text throws: the run ends there
Reject(g, node, prompt) ==
  [g EXCEPT !.next = "failed", !.llm = Append(g.llm, ModelCall(g, prompt, FALSE, Absent))]

\* (a final event that carries the plan history in place of the final plans)
FinalResultHistory(g) ==
  [g EXCEPT !.next = "done",
            !.updates = Append(g.updates, PlanEvent("finalResult", g.values.planHistory))]

\* after the stream: the final state of the thread is sent as 'finalResult'
FinalResult(g) ==
  [g EXCEPT !.next = "done",
            !.updates = Append(g.updates, PlanEvent("finalResult", g.values.finalPlans))]

----------------------------------------------------------------------------
(* The task pane's executor (taskpane.ts).  Excel.run(batch) calls the      *)
(* batch with a request context; the batch queues commands on it and ends  *)
(* with context.sync().  The run rejects when the batch throws or when the *)
(* sync is rejected by the host.  A command is kept with the number of the *)
(* step that queued it.                                                    *)

NoRange == [sheet |-> "", r1 |-> 0, c1 |-> 0, r2 |-> 0, c2 |-> 0]

\* toA1(row, col)
toA1(row, col) == ColLetters(col + 1, <<>>) \o Digits(row + 1)

\* startCell === endCell ? startCell : `${startCell}:${endCell}`
AddressOf(rangeRef) ==
  IF toA1(rangeRef.r1, rangeRef.c1) = toA1(rangeRef.r2, rangeRef.c2)
  THEN <<toA1(rangeRef.r1, rangeRef.c1)>>
  ELSE <<toA1(rangeRef.r1, rangeRef.c1), toA1(rangeRef.r2, rangeRef.c2)>>

Command(j, cmd, sheet, address, arg) ==
  [step |-> j, cmd |-> cmd, sheet |-> sheet, address |-> address, arg |-> arg]

\* the switch on step.op
OpCommands(j, step, sheet, address) ==
  CASE step.op = "setValues" -> <<Command(j, "values", sheet, address, step.args.value.values)>>
    [] step.op = "setFormulas" -> <<Command(j, "formulas", sheet, address, step.args.value.formulas)>>
    [] step.op = "formatRange" ->
         (CASE step.args.value.format = "percent" ->
                 <<Command(j, "numberFormat", sheet, address, "0.00%")>>
            [] step.args.value.format = "currency" ->
                 <<Command(j, "numberFormat", sheet, address, "$#,##0.00")>>
            [] step.args.value.format = "zero_decimal" ->
                 <<Command(j, "numberFormat", sheet, address, "0")>>
            [] OTHER -> <<>>)
    [] OTHER -> <<>>

\* the body of the loop over the steps of a plan, for a step that has args
StepCommands(j, step) ==
  IF step.op = "createSheet"
  THEN <<Command(j, "worksheets.add", step.args.value.name, <<>>, "")>>
  ELSE IF step.args.value.range.sheet = ""
       THEN <<>>
       ELSE <<Command(j, "worksheets.getItem", step.args.value.range.sheet, <<>>, ""),
              Command(j, "getRange", step.args.value.range.sheet,
                      AddressOf(step.args.value.range), ""),
              Command(j, "font.name", step.args.value.range.sheet,
                      AddressOf(step.args.value.range), "Arial"),
              Command(j, "font.size", step.args.value.range.sheet,
                      AddressOf(step.args.value.range), "10")>>
            \o OpCommands(j, step, step.args.value.range.sheet, AddressOf(step.args.value.range))

\* the batch: the steps in order; reading a field of step.args throws when
\* the step has no args
RECURSIVE QueueFrom(_, _, _)
QueueFrom(plan, j, queued) ==
  IF j > Len(plan) THEN [queued |-> queued, threw |-> FALSE]
  ELSE IF ~plan[j].args.present THEN [queued |-> queued, threw |-> TRUE]
  ELSE QueueFrom(plan, j + 1, queued \o StepCommands(j, plan[j]))

\* Excel.run for the i-th entry of result.plans
Batch(i, batch, rejected) ==
  [plan |-> i, queued |-> batch.queued, threw |-> batch.threw,
   synced |-> ~batch.threw, ok |-> ~batch.threw /\ ~rejected]

\* (a loop whose catch logs the error and goes on to the next plan)
RunPlanResilient(run1, i, batches) ==
  [batches |-> Append(batches, run1), next |-> i + 1, raised |-> FALSE]

\* try { await Excel.run(...) } catch (error) { ...; throw new Error(...) }
RunPlan(run1, i, batches) ==
  [batches |-> Append(batches, run1), next |-> i + 1, raised |-> ~run1.ok]

\* for (const plan of result.plans): entries that are not arrays are skipped
RECURSIVE PlansFrom(_, _, _, _)
PlansStep(plans, rejects, r) ==
  IF r.raised THEN [batches |-> r.batches, raised |-> TRUE]
  ELSE PlansFrom(plans, rejects, r.next, r.batches)

PlansFrom(plans, rejects, i, batches) ==
  IF i > Len(plans) THEN [batches |-> batches, raised |-> FALSE]
  ELSE IF ~plans[i].array THEN PlansFrom(plans, rejects, i + 1, batches)
  ELSE PlansStep(plans, rejects,
                 RunPlan(Batch(i, QueueFrom(plans[i].steps, 1, <<>>), i \in rejects), i, batches))

\* executePlanInExcel(result), for a result that has an array of plans
executePlanInExcel(plans, rejects) == PlansFrom(plans, rejects, 1, <<>>)

----------------------------------------------------------------------------
(* Inputs *)

A0 == Addr(<<65>>, <<48>>)
A1 == Addr(<<65>>, <<49>>)
B1 == Addr(<<66>>, <<49>>)
C1 == Addr(<<67>>, <<49>>)
A2 == Addr(<<65>>, <<50>>)

SheetNames == {"Sheet1", "Data"}

Range(sheet, r1, c1, r2, c2) == [sheet |-> sheet, r1 |-> r1, c1 |-> c1, r2 |-> r2, c2 |-> c2]

\* the ranges the calls of Spec name: Sheet1!A1 and Sheet1!A1:B1
Ranges == {Range("Sheet1", 0, 0, 0, 0), Range("Sheet1", 0, 0, 0, 1)}

RangeCoords(range) == RectCoords(range.r1, range.r2, range.c1, range.c2)

\* the grids of the dimensions of `range` whose entries are all in `choices`
\* (the callers of the model pass grids that fit their range)
Grids(range, choices) ==
  [1..(range.r2 - range.r1 + 1) -> [1..(range.c2 - range.c1 + 1) -> choices]]

NoProvenance == [given |-> FALSE, list |-> <<>>]      \* the argument left out
Provenance(list) == [given |-> TRUE, list |-> list]

FSelf == <<TEq, TRef(A1)>>                            \* =A1
FNext == <<TEq, TRef(B1)>>                            \* =B1
FLast == <<TEq, TRef(C1)>>                            \* =C1
FPlus == <<TEq, TRef(A1), TOp("+"), TLit(Num(10))>>   \* =A1+10
FMinus == <<TEq, TRef(A1), TOp("-"), TRef(B1)>>       \* =A1-B1
FTwice == <<TEq, TRef(B1), TOp("+"), TRef(B1)>>       \* =B1+B1
FBad == <<TEq, TLit(Num(1)), TOp("+"), TOp("/"), TLit(Num(2))>>   \* =1+/2
FRowZero == <<TEq, TRef(A0), TOp("+"), TRef(A1)>>     \* =A0+A1
FText == <<TRef(A1)>>                                 \* A1, without '='
FSum == <<TEq, TSum(<<ARef(A1), ARange(B1, C1)>>)>>   \* =SUM(A1,B1:C1)
FDiv == <<TEq, TRef(A1), TOp("/"), TRef(B1)>>         \* =A1/B1
FBelow == <<TEq, TRef(A2)>>                           \* =A2

ValueChoices == {Num(1000), Str("Revenue")}
FormulaChoices == {NoFormula, FPlus}
FormatChoices == {"percent", NoFormat}
ProvenanceChoices == {NoProvenance, Provenance(<<"10-K p.3">>)}
LinkChoices == {<<"note 7">>}

----------------------------------------------------------------------------
(* State *)

EmptyModel == [sheets |-> <<>>, order |-> <<>>, checkpoints |-> <<>>, events |-> <<>>,
               provs |-> <<>>]

\* constructor(): createSheet('Sheet1'), then checkpoint('init')
NewModel == checkpoint(createSheet(EmptyModel, "Sheet1").m, "init")

Init ==
  /\ wb = NewModel
  /\ calls = <<>>
  /\ past = <<>>
  /\ evlog = <<>>
  /\ run = NoRun
  /\ http = <<>>

\* a call was made: its outcome becomes the state, the call is recorded
Record(op, args, res, popped) ==
  /\ wb' = res.m
  /\ calls' = Append(calls, [op |-> op, args |-> args, ok |-> res.ok, err |-> res.err,
                             popped |-> popped])
  /\ past' = Append(past, wb)
  /\ UNCHANGED <<run, http>>

CanCall == Len(calls) < MaxOps

\* an evaluation call was made: its log is kept beside its outcome
Evaluated(op, args, res) ==
  /\ Record(op, args, res, FALSE)
  /\ evlog' = res.log

Call(op, args) ==
  /\ CanCall
  /\ Record(op, args, dispatch(wb, op, args, FALSE), FALSE)
  /\ UNCHANGED evlog

DoCreateSheet == \E name \in SheetNames : Call("createSheet", [name |-> name])

DoDeleteSheet == \E name \in SheetNames : Call("deleteSheet", [name |-> name])

DoSetValues ==
  \E range \in Ranges : \E values \in Grids(range, ValueChoices) :
    \E provenance \in ProvenanceChoices :
      Call("setValues", [range |-> range, values |-> values, provenance |-> provenance])

DoSetFormulas ==
  \E range \in Ranges : \E formulas \in Grids(range, FormulaChoices) :
    Call("setFormulas", [range |-> range, formulas |-> formulas])

DoFormatRange ==
  \E range \in Ranges : \E format \in FormatChoices :
    Call("formatRange", [range |-> range, format |-> format])

DoLinkProvenance ==
  \E range \in Ranges : \E prov \in LinkChoices :
    Call("linkProvenance", [range |-> range, prov |-> prov])

DoUndo ==
  /\ CanCall
  /\ LET res == undo(wb) IN Record("undo", [none |-> TRUE], res, res.popped)
  /\ UNCHANGED evlog

DoCheckpoint ==
  /\ CanCall
  /\ Record("checkpoint", [none |-> TRUE], Ok(checkpoint(wb, "cp")), FALSE)
  /\ UNCHANGED evlog

DoEvaluateAll ==
  /\ CanCall
  /\ Evaluated("evaluateAll", [none |-> TRUE], evaluateAll(wb))

Next ==
  \/ DoCreateSheet
  \/ DoDeleteSheet
  \/ DoSetValues
  \/ DoSetFormulas
  \/ DoFormatRange
  \/ DoLinkProvenance
  \/ DoUndo
  \/ DoCheckpoint
  \/ DoEvaluateAll

Spec == Init /\ [][Next]_vars

----------------------------------------------------------------------------
(* Evaluation on its own: evaluateAll on a new workbook after one          *)
(* dispatch('setCells', ...) that put a row of EvalCols cells, each a      *)
(* value or a formula, into Sheet1.                                        *)

ValueCell(v) == [DefaultCell EXCEPT !.value = v]
FormulaCell(f) == [DefaultCell EXCEPT !.formula = f]

EvalCells ==
  {DefaultCell, ValueCell(Num(1000)), ValueCell(Num(-5)), ValueCell(Str("Revenue")),
   [DefaultCell EXCEPT !.value = Num(7), !.formula = FText]}
  \cup {FormulaCell(f) : f \in {FSelf, FNext, FLast, FPlus, FMinus, FTwice, FBad, FRowZero, FSum, FDiv, FBelow}}

EvalInit ==
  /\ \E row \in [1..EvalCols -> EvalCells] :
       wb = dispatch(NewModel, "setCells",
                     [range |-> Range("Sheet1", 0, 0, 0, EvalCols - 1), cells |-> <<row>>],
                     FALSE).m
  /\ calls = <<>>
  /\ past = <<>>
  /\ evlog = <<>>
  /\ run = NoRun
  /\ http = <<>>

EvalNext == DoEvaluateAll

EvalSpec == EvalInit /\ [][EvalNext]_vars

----------------------------------------------------------------------------
(* Writes whose grid need not have the dimensions of its range: the cells  *)
(* A1 and B2 of Sheet1, written with grids of one entry, of one row of two *)
(* entries and of two rows of one entry, with reads, checkpoints and undo   *)
(* in between                                                              *)

GridRanges == {Range("Sheet1", 0, 0, 0, 0), Range("Sheet1", 1, 1, 1, 1)}

GridShapes(x) == {<<<<x>>>>, <<<<x, x>>>>, <<<<x>>, <<x>>>>}

DoWriteValues ==
  \E range \in GridRanges : \E values \in GridShapes(Num(1000)) :
    Call("setValues", [range |-> range, values |-> values, provenance |-> NoProvenance])

DoWriteFormulas ==
  \E range \in GridRanges : \E formulas \in GridShapes(FPlus) :
    Call("setFormulas", [range |-> range, formulas |-> formulas])

DoWriteCells ==
  \E range \in GridRanges : \E cells \in {<<<<ValueCell(Num(7))>>>>, <<<<ValueCell(Num(7))>>, <<DefaultCell>>>>} :
    Call("setCells", [range |-> range, cells |-> cells])

DoFormatCell == \E range \in GridRanges : Call("formatRange", [range |-> range, format |-> "percent"])

DoLinkCell == \E range \in GridRanges : Call("linkProvenance", [range |-> range, prov |-> <<"note 7">>])

DoGetProvenance ==
  /\ CanCall
  /\ \E a1 \in {A2, C1} :
       Record("getProvenance", [sheet |-> "Sheet1", a1 |-> a1],
              getProvenance(wb, "Sheet1", a1), FALSE)
  /\ UNCHANGED evlog

GridNext ==
  \/ DoWriteValues
  \/ DoWriteFormulas
  \/ DoWriteCells
  \/ DoFormatCell
  \/ DoLinkCell
  \/ DoGetProvenance
  \/ DoEvaluateAll
  \/ DoCheckpoint
  \/ DoUndo

GridSpec == Init /\ [][GridNext]_vars

----------------------------------------------------------------------------
(* dispatch(op, args, internal) called directly, with every op of the      *)
(* vocabulary, an op outside it, and sheets that exist or do not; and      *)
(* loadFromJSON(data).                                                     *)

CellRanges == {Range(name, 0, 0, 0, 0) : name \in SheetNames}

DispatchCalls ==
  {[op |-> op, args |-> [name |-> name]] : op \in {"createSheet", "deleteSheet"}, name \in SheetNames}
  \cup {[op |-> "restoreSheet", args |-> [sheet |-> [name |-> "Data", rows |-> <<>>]]]}
  \cup {[op |-> "setValues",
         args |-> [range |-> range, values |-> <<<<Num(1000)>>>>, provenance |-> provenance]] :
          range \in CellRanges, provenance \in ProvenanceChoices}
  \cup {[op |-> "setFormulas", args |-> [range |-> range, formulas |-> <<<<FPlus>>>>]] :
          range \in CellRanges}
  \cup {[op |-> "formatRange", args |-> [range |-> range, format |-> "percent"]] :
          range \in CellRanges}
  \cup {[op |-> "linkProvenance", args |-> [range |-> range, prov |-> <<"note 7">>]] :
          range \in CellRanges}
  \cup {[op |-> "setCells", args |-> [range |-> range, cells |-> <<<<ValueCell(Num(7))>>>>]] :
          range \in CellRanges}
  \cup {[op |-> op, args |-> [none |-> TRUE]] : op \in {"noop", "recalc"}}

\* the calls made with the internal flag set
InternalCalls ==
  {d \in DispatchCalls : d.op \in {"recalc", "noop", "deleteSheet", "setCells"}}

Dispatched(d, internal) ==
  /\ CanCall
  /\ Record("dispatch", [op |-> d.op, args |-> d.args, internal |-> internal],
            dispatch(wb, d.op, d.args, internal), FALSE)
  /\ UNCHANGED evlog

DoDispatch == \E d \in DispatchCalls : Dispatched(d, FALSE)

DataCell(value, formula) ==
  [value |-> value, formula |-> formula, format |-> NoFormat, provenance |-> NoProvenance]

\* workbook data: no sheet; one sheet; two sheets, one with a provenance array;
\* a sheet with a formula that names row 0
DataChoices ==
  {<<>>,
   <<[name |-> "Data", rows |-> <<<<DataCell(Num(1000), NoFormula), DataCell(Null, FPlus)>>>>]>>,
   <<[name |-> "Data", rows |-> <<>>],
     [name |-> "Sheet1",
      rows |-> <<<<[DataCell(Str("Revenue"), NoFormula)
                      EXCEPT !.provenance = Provenance(<<"10-K p.3">>)]>>>>]>>,
   <<[name |-> "Data", rows |-> <<<<DataCell(Null, FRowZero)>>>>]>>}

DoLoadFromJSON ==
  /\ CanCall
  /\ \E data \in DataChoices :
       Evaluated("loadFromJSON", [data |-> data], loadFromJSON(wb, data))

DoInternalDispatch == \E d \in InternalCalls : Dispatched(d, TRUE)

OpsNext ==
  \/ DoDispatch
  \/ DoInternalDispatch
  \/ DoLoadFromJSON
  \/ DoEvaluateAll
  \/ DoCheckpoint

OpsSpec == Init /\ [][OpsNext]_vars

----------------------------------------------------------------------------
(* The agent's batch executor, once, on a new workbook: plans of up to    *)
(* MaxSteps steps, some of which raise (a sheet that does not exist, a     *)
(* sheet created twice); one step writes a formula on which the closing    *)
(* evaluateAll throws.                                                     *)

StepChoices ==
  {[op |-> "setValues",
    args |-> [range |-> Range("Sheet1", 0, 0, 0, 0), values |-> <<<<Num(1000)>>>>,
              provenance |-> NoProvenance]],
   [op |-> "setValues",
    args |-> [range |-> Range("Ghost", 0, 0, 0, 0), values |-> <<<<Num(1000)>>>>,
              provenance |-> NoProvenance]],
   [op |-> "setFormulas",
    args |-> [range |-> [sheet |-> "Sheet1", r1 |-> 0, c1 |-> 1, r3 |-> 0, c3 |-> 1],
              formulas |-> <<<<FPlus>>>>]],
   [op |-> "createSheet", args |-> [name |-> "Data"]],
   [op |-> "setFormulas",
    args |-> [range |-> Range("Sheet1", 0, 2, 0, 2), formulas |-> <<<<FRowZero>>>>]]}

Plans == UNION {[1..n -> StepChoices] : n \in 1..MaxSteps}

DoExecutePlan ==
  /\ calls = <<>>
  /\ \E plan \in Plans :
       LET res == executePlan(wb, plan)
       IN Evaluated("executePlan",
                    [plan |-> plan, executed |-> res.executed, looped |-> res.looped], res)

PlanNext == DoExecutePlan

PlanSpec == Init /\ [][PlanNext]_vars

----------------------------------------------------------------------------
(* The address codec on its own: rcToA1, then a1ToRc on its result.  Every  *)
(* row is taken with the columns where the letters change length or wrap,  *)
(* and every column with the rows where the digits change length.          *)

Encoded(r, c) ==
  /\ Record("rcToA1", [r |-> r, c |-> c, a1 |-> rcToA1(r, c), rc |-> a1ToRc(rcToA1(r, c))],
            Ok(wb), FALSE)
  /\ UNCHANGED evlog

EdgeCols == {0, 25, 26, 27, 51, 52, MaxCol - 1, MaxCol}
EdgeRows == {0, 8, 9, 98, 99, 998, 999, 9998, 9999, MaxRow - 1, MaxRow}

DoEncodeRow ==
  /\ calls = <<>>
  /\ \E r \in 0..MaxRow, c \in EdgeCols : Encoded(r, c)

DoEncodeColumn ==
  /\ calls = <<>>
  /\ \E c \in 0..MaxCol, r \in EdgeRows : Encoded(r, c)

CodecNext == DoEncodeRow \/ DoEncodeColumn

CodecSpec == Init /\ [][CodecNext]_vars

----------------------------------------------------------------------------
(* Runs of the planning graph, one after the other, each on a thread of    *)
(* its own.  The model's answers are the inputs: any routing decision, a   *)
(* list of 0..MaxSubTasks sub-tasks or none, a plan with or without a      *)
(* summary or no plan; any model call may fail.                            *)

Decisions == {"simple", "complex", "unsure"}

TaskNames == <<"Task 1", "Task 2", "Task 3", "Task 4">>

AllocatorResults ==
  {[subTasks |-> Absent]}
  \cup {[subTasks |-> Present(SubSeq(TaskNames, 1, n))] : n \in 0..MaxSubTasks}

PlannerResults ==
  {[plan |-> Absent, summary |-> ""],
   [plan |-> Present(<<[op |-> "first_step"]>>), summary |-> "Summary 1"],
   [plan |-> Present(<<[op |-> "second_step"], [op |-> "third_step"]>>), summary |-> ""]}

Running(node) == run.next = node

RunPrompt(node) ==
  IF node = "subPlanner"
  THEN Prompt(node, currentTask(run.values), run.values.planHistory)
  ELSE Prompt(node, "", <<>>)

DoStream ==
  /\ run.next \in {"idle", "done", "failed"}
  /\ run.id < MaxRuns
  /\ run' = Stream(run)
  /\ UNCHANGED <<wb, calls, past, evlog, http>>

DoRouter ==
  /\ Running("router")
  /\ \E d \in Decisions :
       run' = Step(run, "router", RunPrompt("router"), [decision |-> d],
                   routerNode(run.values, [decision |-> d]))
  /\ UNCHANGED <<wb, calls, past, evlog, http>>

DoSinglePlanner ==
  /\ Running("singlePlanner")
  /\ \E result \in PlannerResults :
       run' = Step(run, "singlePlanner", RunPrompt("singlePlanner"), result,
                   singlePlannerNode(run.values, result))
  /\ UNCHANGED <<wb, calls, past, evlog, http>>

DoTaskAllocator ==
  /\ Running("taskAllocator")
  /\ \E result \in AllocatorResults :
       run' = Step(run, "taskAllocator", RunPrompt("taskAllocator"), result,
                   taskAllocatorNode(run.values, result))
  /\ UNCHANGED <<wb, calls, past, evlog, http>>

DoSubPlanner ==
  /\ Running("subPlanner")
  /\ \E result \in PlannerResults :
       run' = Step(run, "subPlanner", RunPrompt("subPlanner"), result,
                   subPlannerNode(run.values, result))
  /\ UNCHANGED <<wb, calls, past, evlog, http>>

DoModelFails ==
  /\ run.next \in {"router", "singlePlanner", "taskAllocator", "subPlanner"}
  /\ run' = Reject(run, run.next, RunPrompt(run.next))
  /\ UNCHANGED <<wb, calls, past, evlog, http>>

DoFinalResult ==
  /\ Running("END")
  /\ run' = FinalResult(run)
  /\ UNCHANGED <<wb, calls, past, evlog, http>>

AgentNext ==
  \/ DoStream
  \/ DoRouter
  \/ DoSinglePlanner
  \/ DoTaskAllocator
  \/ DoSubPlanner
  \/ DoModelFails
  \/ DoFinalResult

AgentSpec == Init /\ [][AgentNext]_vars

----------------------------------------------------------------------------
(* The task pane's executor, once: up to MaxPlans entries, some not arrays, *)
(* one plan with a step that has no args; the host may reject any sync.     *)

TaskStep(op, args) == [op |-> op, args |-> Present(args)]

ArrayPlan(steps) == [array |-> TRUE, steps |-> steps]

PlanEntries ==
  {[array |-> FALSE, steps |-> <<>>],
   ArrayPlan(<<>>),
   ArrayPlan(<<TaskStep("createSheet", [name |-> "Financials"]),
               TaskStep("setFormulas", [range |-> Range("Financials", 1, 0, 1, 0),
                                        formulas |-> <<<<FSum>>>>])>>),
   ArrayPlan(<<TaskStep("setValues", [range |-> NoRange, values |-> <<<<Num(1000)>>>>]),
               TaskStep("formatRange", [range |-> Range("MySheet", 0, 0, 1, 1),
                                        format |-> "currency"])>>),
   ArrayPlan(<<TaskStep("createSheet", [name |-> "Data"]),
               [op |-> "setValues", args |-> Absent],
               TaskStep("formatRange", [range |-> Range("Data", 2, 0, 2, 0),
                                        format |-> "bold"])>>)}

PlanLists == UNION {[1..n -> PlanEntries] : n \in 0..MaxPlans}

DoExecutePlanInExcel ==
  /\ calls = <<>>
  /\ \E plans \in PlanLists :
       \E rejects \in {{}} \cup {{i} : i \in 1..Len(plans)} :
         LET res == executePlanInExcel(plans, rejects)
         IN Record("executePlanInExcel",
                   [plans |-> plans, rejects |-> rejects, batches |-> res.batches],
                   IF res.raised THEN Throw(wb, "Execution failed") ELSE Ok(wb), FALSE)
  /\ UNCHANGED evlog

TaskpaneNext == DoExecutePlanInExcel

TaskpaneSpec == Init /\ [][TaskpaneNext]_vars

----------------------------------------------------------------------------
(* The HTTP server (index.ts).  Every request works on the one workbook    *)
(* `model`.  A handler is a sequence of tasks of the event loop: a task    *)
(* runs from the handler's start, or from the point an `await` resumes at, *)
(* to the next `await` or to the handler's end, and the event loop runs    *)
(* one task at a time.  A task is the sequence of the calls it makes on    *)
(* the workbook; a call whose exception is swallowed on the spot lets the  *)
(* task go on, any other exception ends the handler.                       *)

MaxRequests == 2  \* requests the server accepts in one behaviour

Access(op, args, swallow) == [op |-> op, args |-> args, swallow |-> swallow]

\* what parseTenKToStructured returned: per statement, the periods and the lines
Statement ==
  [periods |-> <<Str("FY24")>>,
   lines |-> <<[name |-> Str("Revenue"), values |-> <<Num(1000)>>]>>]

Parsed == [income |-> Statement, balance |-> Statement, cashflow |-> Statement]

\* try { deleteSheet } catch {}, createSheet, setValues of the header, then one
\* setValues per line (line i of forEach is row i + 1; here lines count from 1)
Rebuild(sheet, st) ==
  LET header == <<Str("Line item")>> \o st.periods
      row(r, values) ==
        Access("setValues",
               [range |-> Range(sheet, r, 0, r, Len(header) - 1), values |-> <<values>>,
                provenance |-> NoProvenance], FALSE)
  IN <<Access("deleteSheet", [name |-> sheet], TRUE),
       Access("createSheet", [name |-> sheet], FALSE),
       row(0, header)>>
     \o [i \in 1..Len(st.lines) |-> row(i, <<st.lines[i].name>> \o st.lines[i].values)]

ToJSON == Access("toJSON", [none |-> TRUE], FALSE)

Recompute == Access("evaluateAll", [none |-> TRUE], FALSE)

\* the handler of /api/ingest-10k with an `await` after each sheet
TasksAwaitPerSheet(rq) ==
  CASE rq.kind = "workbook" -> <<<<ToJSON>>>>
    [] rq.kind = "sheetOps" -> <<<<Access("dispatch", rq.body, FALSE), Recompute, ToJSON>>>>
    [] rq.kind = "undo" -> <<<<Access("undo", [none |-> TRUE], FALSE), Recompute, ToJSON>>>>
    [] rq.kind = "provenance" -> <<<<Access("getProvenance", rq.body, FALSE)>>>>
    [] rq.kind = "import" -> <<<<Access("loadFromJSON", rq.body, FALSE)>>>>
    [] rq.kind = "ingest" ->
         << <<>>, <<>>,
            Rebuild("P&L", Parsed.income),
            Rebuild("Balance Sheet", Parsed.balance),
            Rebuild("Cash Flow", Parsed.cashflow) \o <<ToJSON>> >>

\* the tasks of a request's handler.  /api/ingest-10k awaits the text of the
\* PDF, then the parsed statements, and makes no call on the workbook before;
\* every other handler has no await
Tasks(rq) ==
  CASE rq.kind = "workbook" -> <<<<ToJSON>>>>
    [] rq.kind = "sheetOps" -> <<<<Access("dispatch", rq.body, FALSE), Recompute, ToJSON>>>>
    [] rq.kind = "undo" -> <<<<Access("undo", [none |-> TRUE], FALSE), Recompute, ToJSON>>>>
    [] rq.kind = "provenance" -> <<<<Access("getProvenance", rq.body, FALSE)>>>>
    [] rq.kind = "import" -> <<<<Access("loadFromJSON", rq.body, FALSE)>>>>
    [] rq.kind = "ingest" ->
         << <<>>, <<>>,
            Rebuild("P&L", Parsed.income) \o Rebuild("Balance Sheet", Parsed.balance)
              \o Rebuild("Cash Flow", Parsed.cashflow) \o <<ToJSON>> >>

Plain(res) == [m |-> res.m, ok |-> res.ok, err |-> res.err]

\* one call on the workbook
Perform(m, a) ==
  CASE a.op = "toJSON" -> Ok(m)
    [] a.op = "dispatch" -> dispatch(m, a.args.op, a.args.args, FALSE)
    [] a.op = "evaluateAll" -> Plain(evaluateAll(m))
    [] a.op = "undo" -> Plain(undo(m))
    [] a.op = "getProvenance" -> getProvenance(m, a.args.sheet, a.args.cell)
    [] a.op = "loadFromJSON" -> Plain(loadFromJSON(m, a.args.data))
    [] a.op = "deleteSheet" -> deleteSheet(m, a.args.name)
    [] a.op = "createSheet" -> createSheet(m, a.args.name)
    [] a.op = "setValues" -> setValues(m, a.args.range, a.args.values, a.args.provenance)

RECURSIVE RunFrom(_, _, _, _)

\* the k-th call of a task returned or threw: it is recorded with the request
\* that made it
Performed(st, accesses, k, req, res) ==
  RunFrom([m |-> res.m,
           calls |-> Append(st.calls, [op |-> accesses[k].op,
                                       args |-> [req |-> req, call |-> accesses[k].args],
                                       ok |-> res.ok, err |-> res.err, popped |-> FALSE]),
           past |-> Append(st.past, st.m),
           ok |-> res.ok \/ accesses[k].swallow],
          accesses, k + 1, req)

\* a task runs its calls from the k-th on, up to the first that throws
RunFrom(st, accesses, k, req) ==
  IF k > Len(accesses) \/ ~st.ok THEN st
  ELSE Performed(st, accesses, k, req, Perform(st.m, accesses[k]))

\* the requests a client sends
RequestChoices ==
  <<[kind |-> "workbook", body |-> [none |-> TRUE]],
    [kind |-> "sheetOps",
     body |-> [op |-> "setValues",
               args |-> [range |-> Range("Sheet1", 0, 0, 0, 0),
                         values |-> <<<<Num(1000)>>>>, provenance |-> NoProvenance]]],
    [kind |-> "sheetOps", body |-> [op |-> "createSheet", args |-> [name |-> "P&L"]]],
    [kind |-> "undo", body |-> [none |-> TRUE]],
    [kind |-> "provenance", body |-> [sheet |-> "Sheet1", cell |-> A1]],
    [kind |-> "import",
     body |-> [data |-> <<[name |-> "Data",
                           rows |-> <<<<DataCell(Num(1000), NoFormula)>>>>]>>]],
    [kind |-> "ingest", body |-> [none |-> TRUE]]>>

\* a request arrives: its handler is to be started
DoRequest ==
  /\ Len(http) < MaxRequests
  /\ \E j \in 1..Len(RequestChoices) :
       http' = Append(http, [kind |-> RequestChoices[j].kind,
                             body |-> RequestChoices[j].body, at |-> 1])
  /\ UNCHANGED <<wb, calls, past, evlog, run>>

\* the event loop runs the next task of a handler, whole
DoTask ==
  \E i \in 1..Len(http) :
    /\ http[i].at <= Len(Tasks(http[i]))
    /\ LET st == RunFrom([m |-> wb, calls |-> calls, past |-> past, ok |-> TRUE],
                         Tasks(http[i])[http[i].at], 1, i)
       IN /\ wb' = st.m
          /\ calls' = st.calls
          /\ past' = st.past
          /\ http' = [http EXCEPT ![i].at = IF st.ok THEN @ + 1 ELSE Len(Tasks(http[i])) + 1]
    /\ UNCHANGED <<evlog, run>>

\* /api/ingest-10k answers 400 or 500 before it reaches the workbook: no file,
\* no text in the PDF, or extractTextFromPdf or parseTenKToStructured rejected
DoRespondEarly ==
  \E i \in 1..Len(http) :
    /\ http[i].kind = "ingest"
    /\ http[i].at \in {1, 2}
    /\ http' = [http EXCEPT ![i].at = Len(Tasks(http[i])) + 1]
    /\ UNCHANGED <<wb, calls, past, evlog, run>>

HttpNext == DoRequest \/ DoTask \/ DoRespondEarly

HttpSpec == Init /\ [][HttpNext]_vars

----------------------------------------------------------------------------
(* Reading the history *)

NCalls == Len(calls)

\* the workbook right before and right after the i-th call
Before(i) == past[i]
After(i) == IF i = NCalls THEN wb ELSE past[i + 1]

RowsOf(m, sheet) == IF HasSheet(m, sheet) THEN m.sheets[sheet].rows ELSE <<>>

\* value, formula and format of the cell at rc = <<r, c>> of `sheet`
Content(m, sheet, rc) ==
  LET cell == CellAt(RowsOf(m, sheet), rc[1], rc[2])
  IN [value |-> cell.value, formula |-> cell.formula, format |-> cell.format]

\* the provenance list of the cell at rc
ProvAt(m, sheet, rc) == ProvOf(m, CellAt(RowsOf(m, sheet), rc[1], rc[2]))

\* a sheet as a reader sees it: every cell with the content of its provenance list
SheetView(m, name) ==
  LET rows == m.sheets[name].rows
  IN [i \in 1..Len(rows) |->
        [j \in 1..Len(rows[i]) |->
           [value |-> rows[i][j].value, formula |-> rows[i][j].formula,
            format |-> rows[i][j].format, prov |-> ProvOf(m, rows[i][j])]]]

CoordSet(range) == {RangeCoords(range)[k] : k \in 1..Len(RangeCoords(range))}

Succeeded(i, ops) == calls[i].op \in ops /\ calls[i].ok
IsUndo(i) == calls[i].op = "undo"

CellMutations == {"setValues", "setFormulas", "formatRange"}

----------------------------------------------------------------------------
(* Undo *)

\* C1: an undo() right after a successful setValues, setFormulas or formatRange
\* (grid of the range's dimensions) leaves value, formula and format of every cell
\* of the range as they were before the mutation.
UndoRestoresCells ==
  \A i \in 1..(NCalls - 1) :
    (Succeeded(i, CellMutations) /\ IsUndo(i + 1)) =>
      \A rc \in CoordSet(calls[i].args.range) :
        Content(After(i + 1), calls[i].args.range.sheet, rc)
          = Content(Before(i), calls[i].args.range.sheet, rc)

\* a setFormulas over a cell that held a value put a live formula there and was undone
UndoRestoresCellsWitness ==
  \E i \in 1..(NCalls - 1) :
    /\ Succeeded(i, {"setFormulas"}) /\ IsUndo(i + 1)
    /\ Content(Before(i), "Sheet1", <<0, 0>>).value = Num(1000)
    /\ IsLive(Content(After(i), "Sheet1", <<0, 0>>).formula)

\* C2: undo() on a non-empty log leaves the log one event shorter: the previous
\* log without its last event.
UndoPopsOneEvent ==
  \A i \in 1..NCalls :
    (IsUndo(i) /\ Before(i).events # <<>>) =>
      After(i).events = SubSeq(Before(i).events, 1, Len(Before(i).events) - 1)

\* C3 (k = 2): after two consecutive successful mutations and one undo(), a second
\* undo() leaves every cell of both ranges with the content it had before the first
\* mutation.
TwoUndosRevertTwoMutations ==
  (/\ NCalls >= 3
   /\ Succeeded(NCalls - 2, CellMutations)
   /\ Succeeded(NCalls - 1, CellMutations)
   /\ IsUndo(NCalls)) =>
     \A k \in {NCalls - 2, NCalls - 1} :
       \A rc \in CoordSet(calls[k].args.range) :
         Content(undo(wb).m, calls[k].args.range.sheet, rc)
           = Content(Before(NCalls - 2), calls[k].args.range.sheet, rc)

\* C4: a sheet removed by undoing its creation is not brought back by a further undo().
NoRedoOfCreateSheet ==
  \A i \in 1..(NCalls - 2) :
    (Succeeded(i, {"createSheet"}) /\ IsUndo(i + 1) /\ IsUndo(i + 2)) =>
      ~HasSheet(After(i + 2), calls[i].args.name)

\* C5: deleteSheet(name) then undo() leaves a sheet of that name with the cells it
\* had before the deletion; createSheet(name) then undo() leaves no sheet of that name.
UndoOfSheetOps ==
  \A i \in 1..(NCalls - 1) :
    /\ (Succeeded(i, {"deleteSheet"}) /\ IsUndo(i + 1)) =>
         /\ HasSheet(After(i + 1), calls[i].args.name)
         /\ SheetView(After(i + 1), calls[i].args.name)
              = SheetView(Before(i), calls[i].args.name)
    /\ (Succeeded(i, {"createSheet"}) /\ IsUndo(i + 1)) =>
         ~HasSheet(After(i + 1), calls[i].args.name)

\* a sheet holding a value with a provenance list was deleted and the deletion undone
UndoOfSheetOpsWitness ==
  \E i \in 1..(NCalls - 1) :
    /\ Succeeded(i, {"deleteSheet"}) /\ IsUndo(i + 1)
    /\ calls[i].args.name = "Sheet1"
    /\ Content(Before(i), "Sheet1", <<0, 0>>).value = Str("Revenue")
    /\ ProvAt(Before(i), "Sheet1", <<0, 0>>) # <<>>

\* C6: linkProvenance(range, prov) then undo() leaves the provenance list of every
\* cell of the range as it was before the call.
UndoRestoresProvenance ==
  \A i \in 1..(NCalls - 1) :
    (Succeeded(i, {"linkProvenance"}) /\ IsUndo(i + 1)) =>
      \A rc \in CoordSet(calls[i].args.range) :
        ProvAt(After(i + 1), calls[i].args.range.sheet, rc)
          = ProvAt(Before(i), calls[i].args.range.sheet, rc)

----------------------------------------------------------------------------
(* Evaluation *)

\* the last call was evaluateAll: evlog is its log
JustEvaluated == NCalls >= 1 /\ calls[NCalls].op = "evaluateAll"

\* Sheet1 right before and right after the last call
RowsBefore == RowsOf(Before(NCalls), "Sheet1")
RowsAfter == RowsOf(wb, "Sheet1")

LogEntries == {evlog[k] : k \in 1..Len(evlog)}

Coords(rows) == UNION {{<<i - 1, j - 1>> : j \in 1..Len(rows[i])} : i \in 1..Len(rows)}

FormulaCells(rows) == {rc \in Coords(rows) : IsLive(CellAt(rows, rc[1], rc[2]).formula)}

\* the cells the live formula at rc names by a bare reference
BareRefs(rows, rc) ==
  LET f == CellAt(rows, rc[1], rc[2]).formula
  IN IF IsLive(f)
     THEN {<<a1ToRc(f[i].a).r, a1ToRc(f[i].a).c>> : i \in {j \in 1..Len(f) : f[j].t = "ref"}}
     ELSE {}

\* the cells reachable from the set S along bare references, S included
RECURSIVE ReachFrom(_, _)
ReachFrom(rows, S) ==
  LET N == S \cup UNION {BareRefs(rows, rc) : rc \in S}
  IN IF N = S THEN S ELSE ReachFrom(rows, N)

\* the cells on a reference cycle
CycleCells(rows) == {rc \in Coords(rows) : rc \in ReachFrom(rows, BareRefs(rows, rc))}

\* C7: when the formula cells of the sheet are exactly the cells of its reference
\* cycles, evaluateAll returns normally and every cell on a cycle holds '#REF!'.
CyclesGetRef ==
  (/\ JustEvaluated
   /\ CycleCells(RowsBefore) # {}
   /\ FormulaCells(RowsBefore) = CycleCells(RowsBefore)) =>
     /\ calls[NCalls].ok
     /\ \A rc \in CycleCells(RowsBefore) : CellAt(RowsAfter, rc[1], rc[2]).value = REF

\* the sentinels that the bare references of invocation x got from cells that
\* were evaluated for them (not cut short by the visited set)
SentinelsUnder(x) ==
  {y.ret : y \in {z \in LogEntries : /\ z.parent = x.id /\ z.via = "ref"
                                      /\ ~z.hit /\ z.ret \in {REF, ERROR}}}

\* C8: when the cells a formula names by bare reference evaluate to one sentinel,
\* the formula's evaluation returns that sentinel and stores it in the cell.
SentinelPropagates ==
  JustEvaluated =>
    \A x \in LogEntries :
      (x.live /\ ~x.hit) =>
        \A s \in SentinelsUnder(x) :
          (SentinelsUnder(x) = {s}) => (x.ret = s /\ x.post = s)

\* a formula of bare references joined by + - *, each reference to a cell that
\* has no live formula and holds an integer
IsIntegerCell(rows, rc) ==
  /\ HasCell(rows, rc[1], rc[2])
  /\ ~IsLive(CellAt(rows, rc[1], rc[2]).formula)
  /\ IsNum(CellAt(rows, rc[1], rc[2]).value)
  /\ CellAt(rows, rc[1], rc[2]).value.d = 1

IsArithmetic(rows, rc) ==
  LET f == CellAt(rows, rc[1], rc[2]).formula
  IN /\ IsLive(f)
     /\ \A i \in 2..Len(f) :
          f[i].t = "ref" \/ (f[i].t = "op" /\ f[i].o \in {"+", "-", "*"})
     /\ \A q \in BareRefs(rows, rc) : IsIntegerCell(rows, q)

\* the arithmetic result: every reference stands for the integer its cell holds
Arithmetic(rows, f) ==
  JsEval([i \in 1..(Len(f) - 1) |->
            IF f[i + 1].t = "ref"
            THEN TLit(CellAt(rows, a1ToRc(f[i + 1].a).r, a1ToRc(f[i + 1].a).c).value)
            ELSE f[i + 1]])

\* C9: after an evaluateAll that returned, a cell whose formula is built from
\* + - * over bare references to integer cells holds the arithmetic result.
ArithmeticOverIntegers ==
  (JustEvaluated /\ calls[NCalls].ok) =>
    \A rc \in Coords(RowsBefore) :
      IsArithmetic(RowsBefore, rc) =>
        CellAt(RowsAfter, rc[1], rc[2]).value
          = Arithmetic(RowsBefore, CellAt(RowsBefore, rc[1], rc[2]).formula)

\* C10: every evaluation of a cell without a live formula returns the value the
\* cell held when the evaluation began (null for none) and leaves it in the cell.
NonFormulaCellsKeepValue ==
  JustEvaluated =>
    \A x \in LogEntries : ~x.live => (x.ret = x.pre /\ x.post = x.pre)

\* C11: evaluateAll returns normally, whatever formulas the cells hold.
EvaluationNeverRaises == JustEvaluated => calls[NCalls].ok

\* no live formula of the sheet names an address of row 0
RowZeroFree(rows) ==
  \A rc \in FormulaCells(rows) : \A q \in BareRefs(rows, rc) : q[1] >= 0

\* the cells whose formula is =1+/2
MalformedCells(rows) == {rc \in Coords(rows) : CellAt(rows, rc[1], rc[2]).formula = FBad}

\* C12: every evaluation of a cell whose formula is =1+/2 stores '#ERROR!' in the
\* cell and returns it, and the evaluateAll that evaluates it returns normally
\* (on a sheet where no formula names row 0).
MalformedGetsError ==
  JustEvaluated =>
    /\ (RowZeroFree(RowsBefore) => calls[NCalls].ok)
    /\ \A x \in LogEntries :
         (~x.hit /\ <<x.r, x.c>> \in MalformedCells(RowsBefore)) =>
           (x.ret = ERROR /\ x.post = ERROR)

\* an evaluateAll that returned evaluated a cell holding =1+/2
MalformedGetsErrorWitness ==
  /\ JustEvaluated
  /\ calls[NCalls].ok
  /\ \E x \in LogEntries :
       /\ ~x.hit /\ x.via = "top"
       /\ <<x.r, x.c>> \in MalformedCells(RowsBefore)
       /\ x.post = ERROR

----------------------------------------------------------------------------
(* Structural failures *)

\* the i-th call threw the error e
Failed(i, e) == ~calls[i].ok /\ calls[i].err = e

\* C13: createSheet(name) with a name the workbook already has throws the
\* duplicate-sheet error and leaves sheets, cells, event log and checkpoints as
\* they were.
DuplicateSheetRejected ==
  \A i \in 1..NCalls :
    (calls[i].op = "createSheet" /\ HasSheet(Before(i), calls[i].args.name)) =>
      (Failed(i, "DuplicateSheet") /\ After(i) = Before(i))

\* createSheet was called with the name of a sheet that holds a value
DuplicateSheetRejectedWitness ==
  \E i \in 1..NCalls :
    /\ calls[i].op = "createSheet" /\ calls[i].args.name = "Sheet1"
    /\ HasSheet(Before(i), "Sheet1")
    /\ Content(Before(i), "Sheet1", <<0, 0>>).value = Num(1000)
    /\ ~calls[i].ok

\* the operations that name a sheet, and the sheet a dispatched call names
SheetOps == {"deleteSheet", "setValues", "setFormulas", "formatRange", "linkProvenance",
             "setCells"}
NamedSheet(d) == IF d.op = "deleteSheet" THEN d.args.name ELSE d.args.range.sheet

Vocabulary == {"createSheet", "deleteSheet", "restoreSheet", "setValues", "setFormulas",
               "formatRange", "setCells", "linkProvenance", "noop"}

IsDispatch(i) == calls[i].op = "dispatch"

\* C14: a dispatched deleteSheet, setValues, setFormulas, formatRange,
\* linkProvenance or setCells that names a sheet the workbook does not have throws
\* the sheet-not-found error and leaves the workbook as it was.
MissingSheetRejected ==
  \A i \in 1..NCalls :
    (/\ IsDispatch(i)
     /\ calls[i].args.op \in SheetOps
     /\ ~HasSheet(Before(i), NamedSheet(calls[i].args))) =>
       (Failed(i, "SheetNotFound") /\ After(i) = Before(i))

\* setCells was dispatched for a sheet that had been deleted, other sheets remaining
MissingSheetRejectedWitness ==
  \E i \in 1..NCalls :
    /\ IsDispatch(i) /\ calls[i].args.op = "setCells"
    /\ NamedSheet(calls[i].args) = "Sheet1"
    /\ ~HasSheet(Before(i), "Sheet1") /\ HasSheet(Before(i), "Data")
    /\ ~calls[i].ok

\* C15: dispatch with an op outside the vocabulary throws the unknown-op error
\* when the call is not flagged internal and returns normally when it is; either
\* way the workbook stays as it was.
UnknownOpRejected ==
  \A i \in 1..NCalls :
    (IsDispatch(i) /\ calls[i].args.op \notin Vocabulary) =>
      /\ After(i) = Before(i)
      /\ IF calls[i].args.internal THEN calls[i].ok ELSE Failed(i, "UnknownOp")

\* an unknown op was dispatched with the flag and without it, on a workbook with a value
UnknownOpRejectedWitness ==
  \E i \in 1..NCalls, j \in 1..NCalls :
    /\ IsDispatch(i) /\ IsDispatch(j)
    /\ calls[i].args.op = "recalc" /\ calls[j].args.op = "recalc"
    /\ calls[i].args.internal /\ ~calls[j].args.internal
    /\ calls[i].ok /\ ~calls[j].ok
    /\ Content(Before(i), "Sheet1", <<0, 0>>).value = Num(1000)

----------------------------------------------------------------------------
(* Import *)

DeclaredNames(data) == {data[k].name : k \in 1..Len(data)}

\* C16: after loadFromJSON(data) the event log is empty, the only checkpoint is
\* 'import' at log length 0, and the workbook's sheets are those the data declares,
\* or the one default sheet when it declares none.
ImportResetsHistory ==
  \A i \in 1..NCalls :
    calls[i].op = "loadFromJSON" =>
      /\ After(i).events = <<>>
      /\ After(i).checkpoints = <<[id |-> "import", atEvent |-> 0]>>
      /\ DOMAIN After(i).sheets =
           IF calls[i].args.data = <<>> THEN {"Sheet1"} ELSE DeclaredNames(calls[i].args.data)

\* data without sheets was loaded into a workbook with two sheets and three events
ImportResetsHistoryWitness ==
  \E i \in 1..NCalls :
    /\ calls[i].op = "loadFromJSON" /\ calls[i].args.data = <<>>
    /\ Len(Before(i).events) >= 3
    /\ DOMAIN Before(i).sheets = {"Sheet1", "Data"}

----------------------------------------------------------------------------
(* Aggregation *)

Sentinels == {REF, ERROR}

\* the invocations made for the evaluation x of a cell
Children(x) == {y \in LogEntries : y.parent = x.id}

\* C17: when the single-cell argument of =SUM(A1,B1:C1) evaluates to a sentinel,
\* the cell gets that sentinel and nothing is evaluated after that argument: no
\* cell of the range B1:C1 is evaluated for the aggregation.
SumShortCircuits ==
  JustEvaluated =>
    \A x \in LogEntries :
      (~x.hit /\ CellAt(RowsBefore, x.r, x.c).formula = FSum) =>
        \A y \in Children(x) :
          (y.via = "sumref" /\ y.ret \in Sentinels) =>
            /\ x.ret = y.ret /\ x.post = y.ret
            /\ \A z \in Children(x) : z.id <= y.id

\* =SUM(A1,B1:C1) was evaluated with A1 evaluating to a sentinel and B1 holding 1000
SumShortCircuitsWitness ==
  /\ JustEvaluated
  /\ CellAt(RowsBefore, 0, 1).value = Num(1000)
  /\ \E x \in LogEntries :
       /\ ~x.hit /\ CellAt(RowsBefore, x.r, x.c).formula = FSum
       /\ \E y \in Children(x) : y.via = "sumref" /\ y.ret = ERROR

----------------------------------------------------------------------------
(* Batch execution *)

\* the workbook after the steps 1..j of a plan were dispatched one after another
RECURSIVE Replay(_, _, _)
Replay(m, steps, j) ==
  IF j = 0 THEN m
  ELSE dispatch(Replay(m, steps, j - 1), steps[j].op, Sanitize(steps[j].args), FALSE).m

\* the dispatch of step j raises
Raises(m, steps, j) ==
  ~dispatch(Replay(m, steps, j - 1), steps[j].op, Sanitize(steps[j].args), FALSE).ok

\* k is the first step whose dispatch raises
FirstFailure(m, steps, k) ==
  /\ k \in 1..Len(steps)
  /\ Raises(m, steps, k)
  /\ \A j \in 1..(k - 1) : ~Raises(m, steps, j)

\* C18: when step k is the first whose dispatch raises, the executor's record has
\* k entries, the first k-1 as given and the k-th marked failed with an
\* explanation, and the workbook after the loop is the one the steps 1..k-1 left:
\* nothing is rolled back and no later step is dispatched.
BatchStopsAtFailure ==
  \A i \in 1..NCalls :
    calls[i].op = "executePlan" =>
      \A k \in 1..Len(calls[i].args.plan) :
        FirstFailure(Before(i), calls[i].args.plan, k) =>
          /\ Len(calls[i].args.executed) = k
          /\ \A j \in 1..(k - 1) :
               calls[i].args.executed[j] = ExecutedStep(calls[i].args.plan[j])
          /\ calls[i].args.executed[k].step = calls[i].args.plan[k]
          /\ calls[i].args.executed[k].failed
          /\ calls[i].args.executed[k].explain # ""
          /\ calls[i].args.looped = Replay(Before(i), calls[i].args.plan, k - 1)

\* a plan of three steps whose second step raised after the first wrote a value
BatchStopsAtFailureWitness ==
  \E i \in 1..NCalls :
    /\ calls[i].op = "executePlan"
    /\ Len(calls[i].args.plan) = 3
    /\ FirstFailure(Before(i), calls[i].args.plan, 2)
    /\ calls[i].args.plan[3].op = "createSheet"
    /\ Content(After(i), "Sheet1", <<0, 0>>).value = Num(1000)
    /\ ~HasSheet(After(i), "Data")

----------------------------------------------------------------------------
(* The event log *)

\* a grid of cells as a reader of the event sees it: each cell with the content
\* of the provenance array it refers to
ResolveCells(m, cells) ==
  [i \in 1..Len(cells) |->
     [j \in 1..Len(cells[i]) |->
        [value |-> cells[i][j].value, formula |-> cells[i][j].formula,
         format |-> cells[i][j].format, prov |-> ProvOf(m, cells[i][j])]]]

\* the cells an op's arguments carry
PayloadView(m, op, args) ==
  CASE op = "setCells" -> ResolveCells(m, args.cells)
    [] op = "restoreSheet" -> ResolveCells(m, args.sheet.rows)
    [] OTHER -> <<>>

\* an event's forward arguments and inverse payload, as read in workbook m
EventView(m, ev) ==
  [op |-> ev.op, args |-> ev.args, inverse |-> ev.inverse,
   forward |-> PayloadView(m, ev.op, ev.args),
   before |-> PayloadView(m, ev.inverse.op, ev.inverse.args)]

\* the events of the log before the i-th call that are still in the log after it
KeptEvents(i) ==
  IF IsUndo(i) /\ calls[i].popped THEN Len(Before(i).events) - 1 ELSE Len(Before(i).events)

\* C19: a call leaves the forward arguments and the inverse payload of every event
\* that stays in the log as they were, the provenance lists of a before-image
\* included.
EventsImmutable ==
  \A i \in 1..NCalls :
    \A e \in 1..KeptEvents(i) :
      EventView(After(i), After(i).events[e]) = EventView(Before(i), Before(i).events[e])

----------------------------------------------------------------------------
(* Addresses *)

\* C20: a1ToRc of rcToA1(r, c) is (r, c), for the rows 0..MaxRow and the columns
\* 0..MaxCol; the letters of column 0 are 'A', of column 25 'Z', of column 26 'AA'.
CodecRoundTrip ==
  \A i \in 1..NCalls :
    calls[i].op = "rcToA1" =>
      LET x == calls[i].args
      IN /\ x.rc = [r |-> x.r, c |-> x.c]
         /\ x.c = 0 => x.a1[1] = 65 /\ IsDigit(x.a1[2])
         /\ x.c = 25 => x.a1[1] = 90 /\ IsDigit(x.a1[2])
         /\ x.c = 26 => x.a1[1] = 65 /\ x.a1[2] = 65 /\ IsDigit(x.a1[3])

\* the last column of the last row was encoded: two letters, then five digits
CodecRoundTripWitness ==
  \E i \in 1..NCalls :
    /\ calls[i].op = "rcToA1"
    /\ calls[i].args.r = MaxRow /\ calls[i].args.c = MaxCol
    /\ Len(calls[i].args.a1) = 7
    /\ IsLetter(calls[i].args.a1[2]) /\ IsDigit(calls[i].args.a1[3])

----------------------------------------------------------------------------
(* The planning graph *)

\* the model calls a node made in the current run, in call order
RunCalls(node) ==
  SelectSeq(run.llm, LAMBDA call : call.run = run.id /\ call.prompt.node = node)

\* the plans of the 'finalResult' event of a finished run
ResultPlans == run.updates[Len(run.updates)].plans

\* the list the allocator returned in the current run
Allocated == OrEmpty(RunCalls("taskAllocator")[1].result.subTasks)

\* C21: a finished run holds one plan per planning unit, in order: on the simple
\* route one planner call and one plan; on the complex route, with n sub-tasks
\* returned by the allocator, n sub-planner calls, the k-th for the k-th
\* sub-task, and n plans, the k-th the plan of the k-th call.
OnePlanPerUnit ==
  run.next = "done" =>
    IF run.values.routingDecision = "simple"
    THEN /\ Len(RunCalls("singlePlanner")) = 1
         /\ Len(RunCalls("subPlanner")) = 0
         /\ ResultPlans = <<OrEmpty(RunCalls("singlePlanner")[1].result.plan)>>
    ELSE /\ Len(RunCalls("singlePlanner")) = 0
         /\ Len(RunCalls("subPlanner")) = Len(Allocated)
         /\ Len(ResultPlans) = Len(Allocated)
         /\ \A k \in 1..Len(Allocated) :
              /\ RunCalls("subPlanner")[k].prompt.task = Allocated[k]
              /\ ResultPlans[k] = OrEmpty(RunCalls("subPlanner")[k].result.plan)

\* the sub-planner calls of the run of call i that were made before call i
EarlierSubPlans(i) ==
  SelectSeq(SubSeq(run.llm, 1, i - 1),
            LAMBDA call : call.run = run.llm[i].run /\ call.prompt.node = "subPlanner" /\ call.ok)

\* C22: the prompt of the k-th sub-planner call of a run carries the plans that the
\* k-1 earlier sub-planner calls of that run produced, in order, and nothing of
\* another run; the first sub-planner call of a run carries no plan history.
HistoryOfOwnRun ==
  \A i \in 1..Len(run.llm) :
    run.llm[i].prompt.node = "subPlanner" =>
      /\ run.llm[i].prompt.context = (Len(EarlierSubPlans(i)) > 0)
      /\ run.llm[i].prompt.history =
           [k \in 1..Len(EarlierSubPlans(i)) |-> OrEmpty(EarlierSubPlans(i)[k].result.plan)]

\* a second run made its second sub-planner call after a first run that planned too
HistoryOfOwnRunWitness ==
  \E i \in 1..Len(run.llm) :
    /\ run.llm[i].prompt.node = "subPlanner"
    /\ run.llm[i].run = MaxRuns
    /\ Len(EarlierSubPlans(i)) = 1
    /\ \E j \in 1..(i - 1) : run.llm[j].run < MaxRuns /\ run.llm[j].prompt.node = "subPlanner"

----------------------------------------------------------------------------
(* The task pane *)

\* the positions of the array-valued entries of a list of plans, in list order
ArrayEntries(plans) == SelectSeq([j \in 1..Len(plans) |-> j], LAMBDA j : plans[j].array)

\* the steps of a plan that queue commands: up to the first step without args, the
\* steps that create a sheet or name a sheet in their range
QueuingSteps(plan) ==
  {j \in 1..Len(plan) :
     /\ \A h \in 1..j : plan[h].args.present
     /\ plan[j].op = "createSheet" \/ plan[j].args.value.range.sheet # ""}

\* C23: the batches are the array-valued entries in list order, one batch each,
\* up to the first batch that fails; entries that are not arrays have no batch;
\* inside a batch the commands come in step order; a failing batch is the last
\* one and makes the call raise.
BatchesInListOrder ==
  \A i \in 1..NCalls :
    calls[i].op = "executePlanInExcel" =>
      LET plans == calls[i].args.plans
          batches == calls[i].args.batches
          entries == ArrayEntries(plans)
      IN /\ Len(batches) <= Len(entries)
         /\ \A k \in 1..Len(batches) :
              /\ batches[k].plan = entries[k]
              /\ k < Len(batches) => batches[k].ok
              /\ \A p, q \in 1..Len(batches[k].queued) :
                   p < q => batches[k].queued[p].step <= batches[k].queued[q].step
              /\ {batches[k].queued[p].step : p \in 1..Len(batches[k].queued)}
                   = QueuingSteps(plans[entries[k]].steps)
         /\ Len(batches) < Len(entries) => Len(batches) > 0 /\ ~batches[Len(batches)].ok
         /\ calls[i].ok = (\A k \in 1..Len(batches) : batches[k].ok)

\* three entries: the first is not an array, the batch of the second queued two
\* steps and was rejected, the third is an array that got no batch
BatchesInListOrderWitness ==
  \E i \in 1..NCalls :
    /\ calls[i].op = "executePlanInExcel"
    /\ Len(calls[i].args.plans) = 3
    /\ ~calls[i].args.plans[1].array
    /\ calls[i].args.plans[3].array
    /\ Len(calls[i].args.batches) = 1
    /\ calls[i].args.batches[1].plan = 2
    /\ ~calls[i].args.batches[1].ok
    /\ \E p, q \in 1..Len(calls[i].args.batches[1].queued) :
         calls[i].args.batches[1].queued[p].step < calls[i].args.batches[1].queued[q].step

----------------------------------------------------------------------------
(* Evaluation: operands that are not numbers *)

\* the evaluation that invocation x made for its bare reference to the cell rc
RefChild(x, rc) ==
  CHOOSE y \in LogEntries : y.parent = x.id /\ y.via = "ref" /\ y.r = rc[1] /\ y.c = rc[2]

IsPlainText(v) == IsStr(v) /\ v \notin {REF, ERROR}

\* invocation x evaluated, from the top, a formula of + - * over literals and bare
\* references to distinct cells; every referenced cell has no live formula and
\* held, when it was read, a non-negative integer or a text that is no sentinel
HasTextOperands(x) ==
  LET f == CellAt(RowsBefore, x.r, x.c).formula
      refs == {i \in 2..Len(f) : f[i].t = "ref"}
  IN /\ x.via = "top" /\ x.live /\ ~x.hit
     /\ \A i \in 2..Len(f) :
          f[i].t \in {"ref", "lit"} \/ (f[i].t = "op" /\ f[i].o \in {"+", "-", "*"})
     /\ Cardinality(BareRefs(RowsBefore, <<x.r, x.c>>)) = Cardinality(refs)
     /\ \A rc \in BareRefs(RowsBefore, <<x.r, x.c>>) :
          /\ \E y \in LogEntries : y.parent = x.id /\ y.via = "ref" /\ y.r = rc[1] /\ y.c = rc[2]
          /\ ~RefChild(x, rc).hit /\ ~RefChild(x, rc).live
          /\ \/ IsPlainText(RefChild(x, rc).pre)
             \/ (RefChild(x, rc).pre.k = "num" /\ RefChild(x, rc).pre.d = 1
                 /\ RefChild(x, rc).pre.n >= 0)
     /\ \E rc \in BareRefs(RowsBefore, <<x.r, x.c>>) : IsPlainText(RefChild(x, rc).pre)

\* the formula of x with 0 for each reference to a text and the number for each
\* reference to a number
WithTextAsZero(x) ==
  LET f == CellAt(RowsBefore, x.r, x.c).formula
  IN JsEval([i \in 1..(Len(f) - 1) |->
               IF f[i + 1].t = "ref"
               THEN (IF IsStr(RefChild(x, <<a1ToRc(f[i + 1].a).r, a1ToRc(f[i + 1].a).c>>).pre)
                     THEN TLit(Num(0))
                     ELSE TLit(RefChild(x, <<a1ToRc(f[i + 1].a).r, a1ToRc(f[i + 1].a).c>>).pre))
               ELSE f[i + 1]])

\* C24: a bare reference to a cell holding a text that is no sentinel counts as 0:
\* the formula returns, and stores, the arithmetic result with 0 in its place
\* (=A1+10 over the text 'Revenue' gives 10).
TextOperandIsZero ==
  JustEvaluated =>
    \A x \in LogEntries :
      HasTextOperands(x) => (x.ret = WithTextAsZero(x) /\ x.post = WithTextAsZero(x))

\* what the evaluation y of a cell of a range adds to the total
RangeTerm(y) == IF IsNum(y.ret) /\ y.ret.k # "nan" THEN y.ret ELSE Num(0)

RECURSIVE RangeTotal(_)
RangeTotal(S) ==
  IF S = {} THEN Num(0)
  ELSE JsAdd(RangeTerm(CHOOSE y \in S : TRUE), RangeTotal(S \ {CHOOSE y \in S : TRUE}))

\* the evaluations made for the range B1:C1 of the evaluation x of =SUM(A1,B1:C1)
RangeChildren(x) == {y \in Children(x) : y.via = "range"}

\* x evaluated =SUM(A1,B1:C1) and its single-cell argument gave a number
\* (null counts as the number 0)
SumReachedRange(x) ==
  /\ ~x.hit /\ CellAt(RowsBefore, x.r, x.c).formula = FSum
  /\ \E y \in Children(x) : y.via = "sumref" /\ ~IsStr(y.ret)

SumRefTerm(x) == RangeTerm(CHOOSE y \in Children(x) : y.via = "sumref")

\* C25: the range of an aggregation never gives a sentinel: each cell of B1:C1
\* is evaluated once, a cell whose evaluation gives a sentinel, a text or null
\* adds 0, and the aggregation is the sum of the numbers the other cells gave
\* (added to the number of its single-cell argument).
RangeSumSkipsNonNumbers ==
  JustEvaluated =>
    \A x \in LogEntries :
      SumReachedRange(x) =>
        /\ {<<y.r, y.c>> : y \in RangeChildren(x)} = {<<0, 1>>, <<0, 2>>}
        /\ Cardinality(RangeChildren(x)) = 2
        /\ x.ret = JsAdd(SumRefTerm(x), RangeTotal(RangeChildren(x)))
        /\ x.post = x.ret
        /\ x.ret \notin Sentinels

\* =SUM(A1,B1:C1) was evaluated over a range with a cell that gave a sentinel and
\* a cell that gave a number other than 0
RangeSumSkipsNonNumbersWitness ==
  /\ JustEvaluated
  /\ \E x \in LogEntries :
       /\ SumReachedRange(x)
       /\ \E y \in RangeChildren(x) : y.ret \in Sentinels
       /\ \E y \in RangeChildren(x) : y.ret.k = "num" /\ y.ret.n # 0
       /\ x.ret.k = "num" /\ x.ret.n # 0

\* C26: after an evaluateAll that returned, every cell with a live formula holds
\* a finite number or one of the sentinels '#REF!' and '#ERROR!'.
FormulaValuesFinite ==
  (JustEvaluated /\ calls[NCalls].ok) =>
    \A rc \in FormulaCells(RowsAfter) :
      \/ CellAt(RowsAfter, rc[1], rc[2]).value.k = "num"
      \/ CellAt(RowsAfter, rc[1], rc[2]).value \in Sentinels

----------------------------------------------------------------------------
(* Termination of the evaluation *)

Entry(id) == CHOOSE y \in LogEntries : y.id = id

\* the top-level call that the invocation y belongs to
RECURSIVE Root(_)
Root(y) == IF y.parent = 0 THEN y.id ELSE Root(Entry(y.parent))

\* the top-level calls of the last evaluateAll, in call order
TopCalls == SelectSeq(evlog, LAMBDA y : y.via = "top")

RowMajorBefore(y, z) == y.r < z.r \/ (y.r = z.r /\ y.c < z.c)

\* C27: an evaluateAll that returns is bounded by the grid it ends with: its loop
\* makes one top-level call per cell of that grid, in row-major order, cells the
\* evaluation added included; no top-level call finds its cell visited; inside a
\* top-level call a cell is entered at most once, whatever the cycles through
\* references and ranges; an invocation that finds its cell visited calls nothing.
EvaluationBounded ==
  (JustEvaluated /\ calls[NCalls].ok) =>
    /\ {<<TopCalls[k].r, TopCalls[k].c>> : k \in 1..Len(TopCalls)} = Coords(RowsAfter)
    /\ \A j, k \in 1..Len(TopCalls) : j < k => RowMajorBefore(TopCalls[j], TopCalls[k])
    /\ \A k \in 1..Len(TopCalls) : ~TopCalls[k].hit
    /\ \A y, z \in LogEntries :
         (~y.hit /\ ~z.hit /\ y.id # z.id /\ Root(y) = Root(z)) => <<y.r, y.c>> # <<z.r, z.c>>
    /\ \A y \in LogEntries : y.hit => Children(y) = {}

\* an evaluateAll returned on a sheet that had a cycle through a bare reference and
\* a cycle through a range, and that the evaluation made grow by a row
EvaluationBoundedWitness ==
  /\ JustEvaluated /\ calls[NCalls].ok
  /\ Len(RowsAfter) > Len(RowsBefore)
  /\ \E y \in LogEntries : y.hit /\ y.via = "ref"
  /\ \E y \in LogEntries : y.hit /\ y.via = "range"

----------------------------------------------------------------------------
(* The event log: growth *)

LoggedOps == {"createSheet", "deleteSheet", "restoreSheet", "setValues", "setFormulas",
              "formatRange", "linkProvenance", "setCells"}

\* the i-th call left the log as it was
LogUnchanged(i) == After(i).events = Before(i).events

\* the i-th call put one event for `op` at the end of the log and kept the rest
LogGrewByOne(i, op) ==
  /\ Len(After(i).events) = Len(Before(i).events) + 1
  /\ SubSeq(After(i).events, 1, Len(Before(i).events)) = Before(i).events
  /\ After(i).events[Len(After(i).events)].op = op

\* C28: a dispatch of createSheet, deleteSheet, restoreSheet, setValues,
\* setFormulas, formatRange, linkProvenance or setCells that returns appends one
\* event, for that op, at the end of the log and keeps the earlier events in place
\* and in order; a dispatch of noop, a dispatch that raises, evaluateAll and
\* checkpoint leave the log as it was.
OneEventPerMutation ==
  \A i \in 1..NCalls :
    /\ (IsDispatch(i) /\ calls[i].ok /\ calls[i].args.op \in LoggedOps) =>
         LogGrewByOne(i, calls[i].args.op)
    /\ (IsDispatch(i) /\ (~calls[i].ok \/ calls[i].args.op \notin LoggedOps)) => LogUnchanged(i)
    /\ calls[i].op \in {"evaluateAll", "checkpoint"} => LogUnchanged(i)

\* setCells and restoreSheet were dispatched and returned, on a log of at least
\* two events, and a dispatch raised
OneEventPerMutationWitness ==
  \E i, j, k \in 1..NCalls :
    /\ IsDispatch(i) /\ calls[i].ok /\ calls[i].args.op = "setCells"
    /\ Len(Before(i).events) >= 2
    /\ IsDispatch(j) /\ calls[j].ok /\ calls[j].args.op = "restoreSheet"
    /\ IsDispatch(k) /\ ~calls[k].ok

----------------------------------------------------------------------------
(* Writing values and formulas *)

\* the cell a call on `range` writes for grid entry rc = <<r, c>>
Target(range, rc) == <<range.r1 + rc[1], range.c1 + rc[2]>>

\* the cell record at rc of `sheet`, its provenance reference included
CellOf(m, sheet, rc) == CellAt(RowsOf(m, sheet), rc[1], rc[2])

GridEntries(grid) == {GridCoords(grid)[k] : k \in 1..Len(GridCoords(grid))}

\* the provenance of the written cell is a list of its own: an array made by
\* this call, equal to the supplied list, that no other cell refers to
OwnCopy(i, range, rc, entries) ==
  LET cell == CellOf(After(i), range.sheet, Target(range, rc))
  IN /\ cell.prov > Len(Before(i).provs)
     /\ ProvOf(After(i), cell) = calls[i].args.provenance.list
     /\ \A other \in entries \ {rc} :
          CellOf(After(i), range.sheet, Target(range, other)).prov # cell.prov

\* C29: a setValues that returns leaves, for every entry (r, c) of the grid,
\* the cell at (r1 + r, c1 + c) with the entry as its value, no formula, the
\* format it had, and as provenance a copy of the supplied list when one was
\* given, the list it had when none was
SetValuesWrites ==
  \A i \in 1..NCalls :
    Succeeded(i, {"setValues"}) =>
      LET range == calls[i].args.range
          values == calls[i].args.values
      IN \A rc \in GridEntries(values) :
           LET was == CellOf(Before(i), range.sheet, Target(range, rc))
               now == CellOf(After(i), range.sheet, Target(range, rc))
           IN /\ now.value = values[rc[1] + 1][rc[2] + 1]
              /\ now.formula = NoFormula
              /\ now.format = was.format
              /\ IF calls[i].args.provenance.given
                   THEN OwnCopy(i, range, rc, GridEntries(values))
                   ELSE /\ now.prov = was.prov
                        /\ ProvOf(After(i), now) = ProvOf(Before(i), was)

\* a setValues with provenance returned over two cells that had a formula and
\* a format
SetValuesWritesWitness ==
  \E i \in 1..NCalls :
    /\ Succeeded(i, {"setValues"})
    /\ calls[i].args.provenance.given
    /\ Cardinality(GridEntries(calls[i].args.values)) = 2
    /\ \A rc \in GridEntries(calls[i].args.values) :
         LET was == CellOf(Before(i), calls[i].args.range.sheet,
                           Target(calls[i].args.range, rc))
         IN was.formula # NoFormula /\ was.format # NoFormat

\* C30: a setFormulas that returns leaves, for every entry of the grid, the
\* corresponding cell with the entry as its formula (none when the entry is
\* null), the value null, and the format and the provenance it had
SetFormulasWrites ==
  \A i \in 1..NCalls :
    Succeeded(i, {"setFormulas"}) =>
      LET range == calls[i].args.range
          formulas == calls[i].args.formulas
      IN \A rc \in GridEntries(formulas) :
           LET was == CellOf(Before(i), range.sheet, Target(range, rc))
               now == CellOf(After(i), range.sheet, Target(range, rc))
           IN /\ now.formula = formulas[rc[1] + 1][rc[2] + 1]
              /\ now.value = Null
              /\ now.format = was.format
              /\ now.prov = was.prov
              /\ ProvOf(After(i), now) = ProvOf(Before(i), was)

\* a setFormulas returned with a formula entry and a null entry, over cells
\* that had a value and provenance
SetFormulasWritesWitness ==
  \E i \in 1..NCalls :
    LET range == calls[i].args.range
        formulas == calls[i].args.formulas
    IN /\ Succeeded(i, {"setFormulas"})
       /\ \E rc \in GridEntries(formulas) : formulas[rc[1] + 1][rc[2] + 1] = NoFormula
       /\ \E rc \in GridEntries(formulas) : formulas[rc[1] + 1][rc[2] + 1] # NoFormula
       /\ \A rc \in GridEntries(formulas) :
            LET was == CellOf(Before(i), range.sheet, Target(range, rc))
            IN was.value # Null /\ ProvOf(Before(i), was) # <<>>

----------------------------------------------------------------------------
(* Formatting and provenance links: what they leave alone *)

\* the cells of a sheet a reader can tell apart from default cells before or
\* after the i-th call, and the cells of its range
Window(i, sheet) ==
  Coords(RowsOf(Before(i), sheet)) \cup Coords(RowsOf(After(i), sheet))

SameSheets(i) == DOMAIN After(i).sheets = DOMAIN Before(i).sheets

\* C31: formatRange and linkProvenance change no cell's value or formula;
\* formatRange changes nothing but the format of the cells of its range, which
\* becomes the given tag; linkProvenance changes nothing but the provenance of
\* the cells of its range, which becomes the list the cell had followed by the
\* given entries
FormatAndLinkFrame ==
  \A i \in 1..NCalls :
    Succeeded(i, {"formatRange", "linkProvenance"}) =>
      /\ SameSheets(i)
      /\ \A sheet \in DOMAIN Before(i).sheets : \A rc \in Window(i, sheet) :
           LET was == Content(Before(i), sheet, rc)
               now == Content(After(i), sheet, rc)
               inside == sheet = calls[i].args.range.sheet /\ rc \in CoordSet(calls[i].args.range)
               linked == calls[i].op = "linkProvenance" /\ inside
               formatted == calls[i].op = "formatRange" /\ inside
           IN /\ now.value = was.value
              /\ now.formula = was.formula
              /\ now.format = IF formatted THEN calls[i].args.format ELSE was.format
              /\ ProvAt(After(i), sheet, rc)
                   = ProvAt(Before(i), sheet, rc) \o (IF linked THEN calls[i].args.prov ELSE <<>>)

\* a formatRange and a linkProvenance returned, each over a cell that held a
\* value and a provenance list that was not empty
FormatAndLinkFrameWitness ==
  \A op \in {"formatRange", "linkProvenance"} :
    \E i \in 1..NCalls :
      /\ Succeeded(i, {op})
      /\ \E rc \in CoordSet(calls[i].args.range) :
           /\ Content(Before(i), calls[i].args.range.sheet, rc).value # Null
           /\ ProvAt(Before(i), calls[i].args.range.sheet, rc) # <<>>

----------------------------------------------------------------------------
(* The grid of a sheet *)

Sizes == 0..3

\* the sheet has at least nrows rows and each of its rows at least ncols cells
Satisfied(m, sheet, nrows, ncols) ==
  /\ Len(m.sheets[sheet].rows) >= nrows
  /\ \A k \in 1..Len(m.sheets[sheet].rows) : Len(m.sheets[sheet].rows[k]) >= ncols

\* the rows of `now` are at least as many and each at least as long as in `was`
NotSmaller(was, now) ==
  /\ Len(now) >= Len(was)
  /\ \A k \in 1..Len(was) : Len(now[k]) >= Len(was[k])

\* C32: no call of setValues, setFormulas, formatRange, linkProvenance,
\* setCells, evaluateAll, getProvenance or undo makes a sheet that stays in the
\* workbook lose a row or makes one of its rows shorter; and ensureSize leaves
\* a sheet alone whose size it has already established
GridNeverShrinks ==
  /\ \A i \in 1..NCalls :
       \A sheet \in DOMAIN Before(i).sheets \cap DOMAIN After(i).sheets :
         NotSmaller(Before(i).sheets[sheet].rows, After(i).sheets[sheet].rows)
  /\ \A sheet \in DOMAIN wb.sheets : \A nrows \in Sizes : \A ncols \in Sizes :
       /\ ensureSize(ensureSize(wb, sheet, nrows, ncols), sheet, nrows, ncols)
            = ensureSize(wb, sheet, nrows, ncols)
       /\ Satisfied(wb, sheet, nrows, ncols) => ensureSize(wb, sheet, nrows, ncols) = wb

\* a write to A1 returned on a sheet that had two rows, and an undo took it back
GridNeverShrinksWitness ==
  \E i \in 1..(NCalls - 1) :
    /\ Succeeded(i, {"setValues", "setFormulas", "formatRange", "setCells"})
    /\ calls[i].args.range.r2 = 0
    /\ Len(RowsOf(Before(i), "Sheet1")) = 2
    /\ IsUndo(i + 1) /\ calls[i + 1].popped
    /\ Len(RowsOf(wb, "Sheet1")) = 2

----------------------------------------------------------------------------
(* The events of a run *)

EventsOfType(type) == SelectSeq(run.updates, LAMBDA e : e.type = type)

\* the plans of the 'subPlan' events of the run, in the order of emission
EmittedPlans == [k \in 1..Len(EventsOfType("subPlan")) |-> EventsOfType("subPlan")[k].plans[1]]

AllCallsSucceeded == \A k \in 1..Len(run.llm) : run.llm[k].run = run.id => run.llm[k].ok

\* C33: in a run whose model calls all succeeded, no 'finalResult' is emitted
\* while the graph runs; when the run is over there is exactly one, it is the
\* last event, and its plans are the plans of the 'subPlan' events in the order
\* they were emitted
FinalResultSumsUp ==
  AllCallsSucceeded =>
    /\ run.next \in {"router", "singlePlanner", "taskAllocator", "subPlanner", "END"} =>
         Len(EventsOfType("finalResult")) = 0
    /\ run.next = "done" =>
         /\ Len(EventsOfType("finalResult")) = 1
         /\ run.updates[Len(run.updates)].type = "finalResult"
         /\ run.updates[Len(run.updates)].plans = EmittedPlans

\* a run on the complex route is over with two 'subPlan' events of different plans
FinalResultSumsUpWitness ==
  /\ run.next = "done"
  /\ AllCallsSucceeded
  /\ Len(EmittedPlans) = 2
  /\ EmittedPlans[1] # EmittedPlans[2]

----------------------------------------------------------------------------
(* Writes and the rectangle of their range *)

\* the cell at rc of `sheet` reads the same right before and right after call i
CellKept(i, sheet, rc) ==
  /\ Content(After(i), sheet, rc) = Content(Before(i), sheet, rc)
  /\ ProvAt(After(i), sheet, rc) = ProvAt(Before(i), sheet, rc)

\* C34: a setValues or setFormulas changes no cell outside the rectangle of its
\* range, whatever the dimensions of the grid, so that every cell it changes is
\* in the before-image kept in the inverse of its event
WritesStayInRange ==
  \A i \in 1..NCalls :
    calls[i].op \in {"setValues", "setFormulas"} =>
      \A sheet \in DOMAIN Before(i).sheets \cap DOMAIN After(i).sheets :
        \A rc \in Window(i, sheet) :
          (sheet # calls[i].args.range.sheet \/ rc \notin CoordSet(calls[i].args.range))
            => CellKept(i, sheet, rc)

----------------------------------------------------------------------------
(* Calls that raise *)

Raised(i) == calls[i].op \in Vocabulary /\ ~calls[i].ok

\* C35: a dispatch call that raises leaves every cell, the set of sheets and
\* the event log as they were before the call
RaiseLeavesNoTrace ==
  \A i \in 1..NCalls :
    Raised(i) =>
      /\ SameSheets(i)
      /\ After(i).events = Before(i).events
      /\ \A sheet \in DOMAIN Before(i).sheets : \A rc \in Window(i, sheet) :
           CellKept(i, sheet, rc)

----------------------------------------------------------------------------
(* Evaluation: cells referred to more than once *)

Cell(a) == <<a1ToRc(a).r, a1ToRc(a).c>>

\* the cells an argument of SUM names
ArgCells(arg) ==
  IF arg.k = "ref" THEN {Cell(arg.a)}
  ELSE IF arg.k = "range"
  THEN {<<r, c>> : r \in Min2(Cell(arg.a)[1], Cell(arg.b)[1])..Max2(Cell(arg.a)[1], Cell(arg.b)[1]),
                   c \in Min2(Cell(arg.a)[2], Cell(arg.b)[2])..Max2(Cell(arg.a)[2], Cell(arg.b)[2])}
  ELSE {}

\* the cells the live formula at rc names, by bare reference or inside SUM
Refs(rows, rc) ==
  LET f == CellAt(rows, rc[1], rc[2]).formula
  IN IF IsLive(f)
     THEN BareRefs(rows, rc)
          \cup UNION {UNION {ArgCells(f[i].args[k]) : k \in 1..Len(f[i].args)} :
                        i \in {j \in 1..Len(f) : f[j].t = "sum"}}
     ELSE {}

\* the cells reachable from the set S along references, S included
RECURSIVE Reach(_, _)
Reach(rows, S) ==
  LET N == S \cup UNION {Refs(rows, rc) : rc \in S}
  IN IF N = S THEN S ELSE Reach(rows, N)

OnCycle(rows, rc) == rc \in Reach(rows, Refs(rows, rc))

\* no cell that rc refers to, directly or through other cells, is on a cycle,
\* and none of them holds the text '#REF!' as a plain value
CycleFree(rows, rc) ==
  \A q \in Reach(rows, {rc}) :
    /\ ~OnCycle(rows, q)
    /\ IsLive(CellAt(rows, q[1], q[2]).formula) \/ CellAt(rows, q[1], q[2]).value # REF

\* C36: after an evaluateAll that returned, a formula cell whose references,
\* followed through the cells they name, contain no cycle does not hold '#REF!',
\* also when it refers to a cell more than once
NoCycleNoRef ==
  (JustEvaluated /\ calls[NCalls].ok) =>
    \A rc \in FormulaCells(RowsBefore) :
      CycleFree(RowsBefore, rc) => CellAt(RowsAfter, rc[1], rc[2]).value # REF

----------------------------------------------------------------------------
(* Evaluation twice in a row *)

\* C37: an evaluateAll that follows an evaluateAll, both having returned, leaves
\* every cell with the value the first one left
SecondPassChangesNothing ==
  \A i \in 2..NCalls :
    (/\ calls[i - 1].op = "evaluateAll" /\ calls[i - 1].ok
     /\ calls[i].op = "evaluateAll" /\ calls[i].ok) =>
      \A sheet \in DOMAIN Before(i).sheets : \A rc \in Window(i, sheet) :
        Content(After(i), sheet, rc).value = Content(Before(i), sheet, rc).value

----------------------------------------------------------------------------
(* Undo on a new workbook *)

\* C38: an undo() that is the first call on the workbook the constructor made
\* returns null and leaves the sheets, Sheet1 among them, as they were
FreshUndoIsNull ==
  (NCalls >= 1 /\ IsUndo(1)) =>
    /\ ~calls[1].popped
    /\ HasSheet(After(1), "Sheet1")
    /\ After(1).sheets = Before(1).sheets

----------------------------------------------------------------------------
(* Checkpoints *)

\* C39: the position every checkpoint recorded is at most the length of the
\* event log
CheckpointsInLog ==
  \A k \in 1..Len(wb.checkpoints) : wb.checkpoints[k].atEvent <= Len(wb.events)

----------------------------------------------------------------------------
(* Requests in flight on the one workbook *)

\* the request that made the i-th call
RequestOf(i) == calls[i].args.req

\* C40: the calls a request's handler makes on the workbook are consecutive: no
\* call of another request, be it a mutation or a read, lies between two of them
HandlersRunToCompletion ==
  \A a, b, c \in 1..NCalls :
    (a < b /\ b < c /\ RequestOf(a) = RequestOf(c)) => RequestOf(b) = RequestOf(a)

\* an ingest was in flight while a later sheetOps request was served, and then
\* rebuilt its three sheets
HandlersRunToCompletionWitness ==
  /\ Len(http) = 2
  /\ http[1].kind = "ingest" /\ http[1].at > Len(Tasks(http[1]))
  /\ http[2].kind = "sheetOps"
  /\ NCalls > 3
  /\ RequestOf(1) = 2 /\ calls[1].op = "dispatch"
  /\ RequestOf(NCalls) = 1 /\ calls[NCalls].op = "toJSON"
  /\ HasSheet(wb, "P&L") /\ HasSheet(wb, "Balance Sheet") /\ HasSheet(wb, "Cash Flow")

=============================================================================
